---- MODULE Spec2Model ----
\* Verification model of crates/pi-natives: the content scanner (grep.rs),
\* the directory walker, discovery cache and glob/fuzzyFind/grep entry points
\* (glob.rs, grep.rs).
EXTENDS Integers, Sequences, FiniteSets, TLC

VARIABLES
    content,    \* scan: the lines of the searched content, TRUE = the line matches
    params,     \* scan: SearchParams of the running search
    searcher,   \* scan: the line-oriented searcher's position and the MatchCollector
    scanPc,     \* scan: "scanning" | "done"
    fzQuery,    \* fuzzy: the trimmed, lowercased query handed to score_fuzzy_path
    fzA,        \* fuzzy: a scored entry [path, is_directory, score], or NotScored
    fzB,        \* fuzzy: a second scored entry of the same query, or NotScored
    tfType,     \* type filter: the `type` option as given
    tfName,     \* type filter: the candidate's file name
    tfPass,     \* type filter: "unset" | "none" (no filter) | "pass" | "reject"
    fs,         \* tree: the files now under the search root
    cache,      \* tree: GLOB_CACHE, GlobCacheKey -> GlobCacheEntry or NoEntry
    now,        \* tree: the clock, in ms
    call,       \* tree: the last glob / grep / fuzzyFind call and what it did
    ncalls,     \* tree: the calls made so far
    procs,      \* ps: the process table, pid -> [state, parent]
    kt,         \* ps: the running kill_tree call: its position and locals
    gets,       \* cache: per thread, its get_entries_with_cache call
    written,    \* cache: per key, the entry of the latest GLOB_CACHE.insert
    par,        \* grep: the parallel search in progress, file by file
    seqRun,     \* grep: the sequential search in progress, file by file
    trunc       \* scan: a line on its way through truncate_line

scanVars == <<content, params, searcher, scanPc>>
fuzzyVars == <<fzQuery, fzA, fzB>>
typeVars == <<tfType, tfName, tfPass>>
treeVars == <<fs, cache, now, call, ncalls>>
psVars == <<procs, kt>>
getVars == <<gets, written>>
parVars == <<par>>
seqVars == <<seqRun>>
lineVars == <<trunc>>
vars == <<content, params, searcher, scanPc, fzQuery, fzA, fzB,
          tfType, tfName, tfPass, fs, cache, now, call, ncalls, procs, kt,
          gets, written, par, seqRun, trunc>>

\* ---------------------------------------------------------------- bounds
MaxLines == 5
MaxOffset == 2
MaxCount == 2
MaxCtx == 2
MaxPathLen == 3
MaxQueryLen == 2
MaxTypeLen == 2
MaxNameLen == 3
MaxTime == 2
MaxCalls == 2
MaxPid == 4
MaxThreads == 2
MaxColumns == 5
MaxLineLen == 4

\* Option::None of an Option<u64> / Option<u32>
None == -1

Min(a, b) == IF a < b THEN a ELSE b
Max(a, b) == IF a > b THEN a ELSE b

\* ------------------------------------------------- ContentScanner (grep.rs)
\* MatchCollector::new
NewCollector ==
    [ matches         |-> <<>>,
      match_count     |-> 0,
      collected_count |-> 0,
      skipped         |-> 0,
      limit_reached   |-> FALSE,
      context_before  |-> <<>> ]

\* the character U+00E9, two bytes long in UTF-8; every other character of
\* the model is one byte long
EAcute == "U+00E9"

\* char::len_utf8
LenUtf8(ch) == IF ch = EAcute THEN 2 ELSE 1

RECURSIVE ByteLen(_)
\* str::len: the length of a text in bytes
ByteLen(t) == IF Len(t) = 0 THEN 0 ELSE LenUtf8(t[1]) + ByteLen(Tail(t))

\* the characters of t that end at or below byte `index`
CharsWithin(t, index) ==
    CHOOSE n \in 0..Len(t) :
        /\ ByteLen(SubSeq(t, 1, n)) <= index
        /\ n < Len(t) => ByteLen(SubSeq(t, 1, n + 1)) > index

\* &line[..line.floor_char_boundary(index)]
UpToFloorCharBoundary(t, index) == SubSeq(t, 1, CharsWithin(t, index))

Ellipsis == <<".", ".", ".">>

\* MatchCollector::truncate_line
TruncateLine(max_columns, line) ==
    IF max_columns # None /\ ByteLen(line) > max_columns
    THEN LET cut == IF max_columns >= 3 THEN max_columns - 3 ELSE 0
         IN [line |-> UpToFloorCharBoundary(line, cut) \o Ellipsis,
             truncated |-> TRUE]
    ELSE [line |-> line, truncated |-> FALSE]

\* bytes_to_trimmed_string: str::trim_end
BytesToTrimmedString(bytes) ==
    LET last == { i \in 1..Len(bytes) : bytes[i] # " " }
    IN IF last = {} THEN <<>>
       ELSE SubSeq(bytes, 1, CHOOSE i \in last : \A j \in last : j <= i)

\* collect_matches: params.mode == OutputMode::Content
CollectMatches(p) == p.mode = "content"

\* matched() that attaches a copy of the before-buffer and leaves the buffer
\* filled for the next match
SinkMatchedKeepsBuffer(c, p, ln) ==
    LET c1 == [c EXCEPT !.match_count = @ + 1] IN
    IF c1.limit_reached THEN
        [sink |-> c1, keep |-> FALSE]
    ELSE IF c1.skipped < p.offset THEN
        [sink |-> [c1 EXCEPT !.skipped = @ + 1, !.context_before = <<>>],
         keep |-> TRUE]
    ELSE
        LET c2 == IF p.mode = "content"
                  THEN [c1 EXCEPT
                          !.matches = Append(@,
                              [ line_number    |-> ln,
                                context_before |-> c1.context_before,
                                context_after  |-> <<>> ])]
                  ELSE [c1 EXCEPT !.context_before = <<>>]
            c3 == [c2 EXCEPT !.collected_count = @ + 1]
            c4 == IF p.max_count # None /\ c3.collected_count >= p.max_count
                  THEN [c3 EXCEPT !.limit_reached = TRUE]
                  ELSE c3
        IN [sink |-> c4, keep |-> TRUE]

\* matched() that tells the searcher to stop with the record that reaches
\* the limit
SinkMatchedStopsAtLimit(c, p, ln) ==
    LET r == SinkMatchedKeepsBuffer(c, p, ln)
        cleared == [r.sink EXCEPT !.context_before = <<>>]
    IN [sink |-> cleared, keep |-> r.keep /\ ~cleared.limit_reached]

\* matched() that leaves the before-buffer as it is when it skips a match
SinkMatchedSkipKeepsBuffer(c, p, ln) ==
    LET c1 == [c EXCEPT !.match_count = @ + 1] IN
    IF ~c1.limit_reached /\ c1.skipped < p.offset
    THEN [sink |-> [c1 EXCEPT !.skipped = @ + 1], keep |-> TRUE]
    ELSE [SinkMatchedKeepsBuffer(c, p, ln) EXCEPT !.sink.context_before = <<>>]

\* impl Sink for MatchCollector: matched(). Returns the collector and the
\* keep-going flag handed back to the searcher.
SinkMatched(c, p, ln) ==
    LET c1 == [c EXCEPT !.match_count = @ + 1] IN
    IF c1.limit_reached THEN
        [sink |-> c1, keep |-> FALSE]
    ELSE IF c1.skipped < p.offset THEN
        [sink |-> [c1 EXCEPT !.skipped = @ + 1, !.context_before = <<>>],
         keep |-> TRUE]
    ELSE
        LET c2 == IF CollectMatches(p)
                  THEN [c1 EXCEPT
                          !.matches = Append(@,
                              [ line_number    |-> ln,
                                context_before |-> c1.context_before,
                                context_after  |-> <<>> ]),
                          !.context_before = <<>>]
                  ELSE [c1 EXCEPT !.context_before = <<>>]
            c3 == [c2 EXCEPT !.collected_count = @ + 1]
            c4 == IF p.max_count # None /\ c3.collected_count >= p.max_count
                  THEN [c3 EXCEPT !.limit_reached = TRUE]
                  ELSE c3
        IN [sink |-> c4, keep |-> TRUE]

\* impl Sink for MatchCollector: context()
SinkContext(c, p, kind, ln) ==
    IF ~CollectMatches(p) THEN c
    ELSE IF kind = "Before" THEN
        [c EXCEPT !.context_before = Append(@, ln)]
    ELSE IF kind = "After" THEN
        IF Len(c.matches) > 0
        THEN [c EXCEPT !.matches[Len(c.matches)].context_after = Append(@, ln)]
        ELSE c
    ELSE c

\* build_searcher as configured by run_search_reader: context only in content mode
BeforeContext(p) == IF p.mode = "content" THEN p.context_before ELSE 0
AfterContext(p) == IF p.mode = "content" THEN p.context_after ELSE 0

\* The searcher's state at the start of search_reader
NewSearcher ==
    [ pos                |-> 0,
      last_line_visited  |-> 0,
      after_context_left |-> 0,
      stopped            |-> FALSE,
      sink               |-> NewCollector ]

RECURSIVE SinkBeforeLines(_, _, _, _)
\* the searcher hands lines from..upto-1 to the sink as before-context
SinkBeforeLines(c, p, from, upto) ==
    IF from >= upto THEN c
    ELSE SinkBeforeLines(SinkContext(c, p, "Before", from), p, from + 1, upto)

\* One line of searcher.search_reader(matcher, reader, &mut collector): a
\* matching line first gets the not yet visited lines of its before-window
\* as before-context, then goes to matched(); a non-matching line is
\* after-context while the window of the last match is open.
SearcherStep(s, p, lines) ==
    LET ln == s.pos + 1 IN
    IF lines[ln] THEN
        LET from == Max(s.last_line_visited + 1, ln - BeforeContext(p))
            c1   == IF BeforeContext(p) = 0 THEN s.sink
                    ELSE SinkBeforeLines(s.sink, p, from, ln)
            r    == SinkMatched(c1, p, ln)
        IN IF r.keep
           THEN [s EXCEPT !.pos = ln, !.last_line_visited = ln,
                          !.after_context_left = AfterContext(p),
                          !.sink = r.sink]
           ELSE [s EXCEPT !.pos = ln, !.stopped = TRUE, !.sink = r.sink]
    ELSE IF s.after_context_left >= 1 THEN
        [s EXCEPT !.pos = ln, !.last_line_visited = ln,
                  !.after_context_left = @ - 1,
                  !.sink = SinkContext(s.sink, p, "After", ln)]
    ELSE [s EXCEPT !.pos = ln]

SearcherDone(s, lines) == s.stopped \/ s.pos >= Len(lines)

RECURSIVE SearcherLoop(_, _, _)
SearcherLoop(s, p, lines) ==
    IF SearcherDone(s, lines) THEN s
    ELSE SearcherLoop(SearcherStep(s, p, lines), p, lines)

\* a result whose match_count only tells whether the content matched
ResultOfFlagsMatch(s) ==
    [ matches       |-> s.sink.matches,
      match_count   |-> IF s.sink.match_count > 0 THEN 1 ELSE 0,
      collected     |-> s.sink.collected_count,
      limit_reached |-> s.sink.limit_reached ]

\* SearchResultInternal built from the collector when the search returns
ResultOf(s) ==
    [ matches       |-> s.sink.matches,
      match_count   |-> s.sink.match_count,
      collected     |-> s.sink.collected_count,
      limit_reached |-> s.sink.limit_reached ]

\* run_search_reader
RunSearchReader(lines, p) == ResultOf(SearcherLoop(NewSearcher, p, lines))

\* ------------------------------------------------- FuzzyScorer (grep.rs)
\* Text is a sequence of characters.
PathChars == {"a", "b", "x", "A", ".", "/"}
QueryChars == {"a", "b"}

\* char::to_lowercase on the characters of the model
LowerChar(ch) == CASE ch = "A" -> "a" [] ch = "B" -> "b" [] ch = "C" -> "c"
                   [] ch = "H" -> "h" [] ch = "S" -> "s" [] ch = "X" -> "x"
                   [] OTHER -> ch

\* str::to_lowercase
ToLowercase(t) == [i \in 1..Len(t) |-> LowerChar(t[i])]

\* the separators normalize_fuzzy_text drops, with the whitespace
FuzzySeparators == {"/", "\\", ".", "_", "-", " "}

IsKept(ch) == ch \notin FuzzySeparators

\* normalize_fuzzy_text
NormalizeFuzzyText(t) == ToLowercase(SelectSeq(t, IsKept))

\* str::starts_with
StartsWith(t, q) == Len(q) <= Len(t) /\ SubSeq(t, 1, Len(q)) = q

\* str::contains
ContainsText(t, q) ==
    \E i \in 0..(Len(t) - Len(q)) : SubSeq(t, i + 1, i + Len(q)) = q

RECURSIVE TrimEndSlashes(_)
\* str::trim_end_matches('/')
TrimEndSlashes(t) ==
    IF Len(t) > 0 /\ t[Len(t)] = "/" THEN TrimEndSlashes(SubSeq(t, 1, Len(t) - 1))
    ELSE t

\* Path::new(source).file_name(), or the source when there is none: the text
\* after the last separator
FileNameOf(source) ==
    IF \E i \in 1..Len(source) : source[i] = "/"
    THEN LET last == CHOOSE i \in 1..Len(source) :
                        /\ source[i] = "/"
                        /\ \A j \in (i + 1)..Len(source) : source[j] # "/"
         IN SubSeq(source, last + 1, Len(source))
    ELSE source

RECURSIVE SubsequenceWalk(_, _, _, _, _, _)
\* the loop of fuzzy_subsequence_score over target.chars().enumerate();
\* last = 0 stands for last_match_index = None (indices are 1-based here)
SubsequenceWalk(query, target, ti, qi, gaps, last) ==
    IF ti > Len(target) \/ qi > Len(query) THEN [qi |-> qi, gaps |-> gaps]
    ELSE IF query[qi] = target[ti]
         THEN SubsequenceWalk(query, target, ti + 1, qi + 1,
                              IF last # 0 /\ ti > last + 1 THEN gaps + 1 ELSE gaps,
                              ti)
         ELSE SubsequenceWalk(query, target, ti + 1, qi, gaps, last)

\* a subsequence score without the penalty for gaps
FuzzySubsequenceScoreFlat(query, target) ==
    IF Len(query) = 0 THEN 1
    ELSE IF SubsequenceWalk(query, target, 1, 1, 0, 0).qi # Len(query) + 1 THEN 0
    ELSE 40

\* fuzzy_subsequence_score
FuzzySubsequenceScore(query, target) ==
    IF Len(query) = 0 THEN 1
    ELSE LET w == SubsequenceWalk(query, target, 1, 1, 0, 0) IN
         IF w.qi # Len(query) + 1 THEN 0
         ELSE Max(Max(40 - w.gaps * 5, 0), 1)

\* score_fuzzy_path
ScoreFuzzyPath(path, is_directory, query_lower, normalized_query) ==
    LET lower_path           == ToLowercase(path)
        normalized_path      == NormalizeFuzzyText(path)
        file_name            == FileNameOf(TrimEndSlashes(path))
        lower_file_name      == ToLowercase(file_name)
        normalized_file_name == NormalizeFuzzyText(file_name)
        file_name_fuzzy == FuzzySubsequenceScore(normalized_query, normalized_file_name)
        path_fuzzy      == FuzzySubsequenceScore(normalized_query, normalized_path)
        score ==
            IF Len(query_lower) = 0 THEN 1
            ELSE IF lower_file_name = query_lower THEN 120
            ELSE IF StartsWith(lower_file_name, query_lower) THEN 100
            ELSE IF ContainsText(lower_file_name, query_lower) THEN 80
            ELSE IF ContainsText(lower_path, query_lower) THEN 60
            ELSE IF file_name_fuzzy > 0 THEN 50 + file_name_fuzzy
            ELSE IF path_fuzzy > 0 THEN 30 + path_fuzzy
            ELSE 0
    IN IF is_directory /\ score > 0 THEN score + 10 ELSE score

\* the path fuzzy_find_sync hands to score_fuzzy_path: a directory's relative
\* path gets a trailing separator
ScoredPath(entryPath, is_directory) ==
    IF is_directory THEN entryPath \o <<"/">> ELSE entryPath

\* ---------------------------------------------------- TypeFilter (grep.rs)
RECURSIVE TrimStart(_, _)
\* str::trim_start_matches over a set of characters
TrimStart(t, chars) ==
    IF Len(t) > 0 /\ t[1] \in chars THEN TrimStart(Tail(t), chars) ELSE t

RECURSIVE TrimEnd(_, _)
TrimEnd(t, chars) ==
    IF Len(t) > 0 /\ t[Len(t)] \in chars
    THEN TrimEnd(SubSeq(t, 1, Len(t) - 1), chars) ELSE t

\* str::trim
Trim(t) == TrimEnd(TrimStart(t, {" "}), {" "})

\* str::eq_ignore_ascii_case
EqIgnoreAsciiCase(x, y) == ToLowercase(x) = ToLowercase(y)

\* the match arms of resolve_type_filter
KnownTypes ==
    {
      [ family |-> {<<"j", "s">>, <<"j", "a", "v", "a", "s", "c", "r", "i", "p", "t">>},
        exts |-> {<<"j", "s">>, <<"j", "s", "x">>, <<"m", "j", "s">>, <<"c", "j", "s">>},
        names |-> {} ],
      [ family |-> {<<"t", "s">>, <<"t", "y", "p", "e", "s", "c", "r", "i", "p", "t">>},
        exts |-> {<<"t", "s">>, <<"t", "s", "x">>, <<"m", "t", "s">>, <<"c", "t", "s">>},
        names |-> {} ],
      [ family |-> {<<"j", "s", "o", "n">>},
        exts |-> {<<"j", "s", "o", "n">>, <<"j", "s", "o", "n", "c">>, <<"j", "s", "o", "n", "5">>},
        names |-> {} ],
      [ family |-> {<<"y", "a", "m", "l">>, <<"y", "m", "l">>},
        exts |-> {<<"y", "a", "m", "l">>, <<"y", "m", "l">>},
        names |-> {} ],
      [ family |-> {<<"t", "o", "m", "l">>},
        exts |-> {<<"t", "o", "m", "l">>},
        names |-> {} ],
      [ family |-> {<<"m", "d">>, <<"m", "a", "r", "k", "d", "o", "w", "n">>},
        exts |-> {<<"m", "d">>, <<"m", "a", "r", "k", "d", "o", "w", "n">>, <<"m", "d", "x">>},
        names |-> {} ],
      [ family |-> {<<"p", "y">>, <<"p", "y", "t", "h", "o", "n">>},
        exts |-> {<<"p", "y">>, <<"p", "y", "i">>},
        names |-> {} ],
      [ family |-> {<<"r", "s">>, <<"r", "u", "s", "t">>},
        exts |-> {<<"r", "s">>},
        names |-> {} ],
      [ family |-> {<<"g", "o">>},
        exts |-> {<<"g", "o">>},
        names |-> {} ],
      [ family |-> {<<"j", "a", "v", "a">>},
        exts |-> {<<"j", "a", "v", "a">>},
        names |-> {} ],
      [ family |-> {<<"k", "t">>, <<"k", "o", "t", "l", "i", "n">>},
        exts |-> {<<"k", "t">>, <<"k", "t", "s">>},
        names |-> {} ],
      [ family |-> {<<"c">>},
        exts |-> {<<"c">>, <<"h">>},
        names |-> {} ],
      [ family |-> {<<"c", "p", "p">>, <<"c", "x", "x">>},
        exts |-> {<<"c", "p", "p">>, <<"c", "c">>, <<"c", "x", "x">>, <<"h", "p", "p">>, <<"h", "x", "x">>, <<"h", "h">>},
        names |-> {} ],
      [ family |-> {<<"c", "s">>, <<"c", "s", "h", "a", "r", "p">>},
        exts |-> {<<"c", "s">>, <<"c", "s", "x">>},
        names |-> {} ],
      [ family |-> {<<"p", "h", "p">>},
        exts |-> {<<"p", "h", "p">>, <<"p", "h", "t", "m", "l">>},
        names |-> {} ],
      [ family |-> {<<"r", "b">>, <<"r", "u", "b", "y">>},
        exts |-> {<<"r", "b">>, <<"r", "a", "k", "e">>, <<"g", "e", "m", "s", "p", "e", "c">>},
        names |-> {} ],
      [ family |-> {<<"s", "h">>, <<"b", "a", "s", "h">>},
        exts |-> {<<"s", "h">>, <<"b", "a", "s", "h">>, <<"z", "s", "h">>},
        names |-> {} ],
      [ family |-> {<<"z", "s", "h">>},
        exts |-> {<<"z", "s", "h">>},
        names |-> {} ],
      [ family |-> {<<"f", "i", "s", "h">>},
        exts |-> {<<"f", "i", "s", "h">>},
        names |-> {} ],
      [ family |-> {<<"h", "t", "m", "l">>},
        exts |-> {<<"h", "t", "m", "l">>, <<"h", "t", "m">>},
        names |-> {} ],
      [ family |-> {<<"c", "s", "s">>},
        exts |-> {<<"c", "s", "s">>},
        names |-> {} ],
      [ family |-> {<<"s", "c", "s", "s">>},
        exts |-> {<<"s", "c", "s", "s">>},
        names |-> {} ],
      [ family |-> {<<"s", "a", "s", "s">>},
        exts |-> {<<"s", "a", "s", "s">>},
        names |-> {} ],
      [ family |-> {<<"l", "e", "s", "s">>},
        exts |-> {<<"l", "e", "s", "s">>},
        names |-> {} ],
      [ family |-> {<<"x", "m", "l">>},
        exts |-> {<<"x", "m", "l">>},
        names |-> {} ],
      [ family |-> {<<"d", "o", "c", "k", "e", "r">>, <<"d", "o", "c", "k", "e", "r", "f", "i", "l", "e">>},
        exts |-> {},
        names |-> {<<"d", "o", "c", "k", "e", "r", "f", "i", "l", "e">>} ],
      [ family |-> {<<"m", "a", "k", "e">>, <<"m", "a", "k", "e", "f", "i", "l", "e">>},
        exts |-> {},
        names |-> {<<"m", "a", "k", "e", "f", "i", "l", "e">>} ]
    }

NoTypeFilter == [kind |-> "NoFilter"]

\* resolve_type_filter; type_name = <<>> stands for an absent option
ResolveTypeFilter(type_name) ==
    IF Len(Trim(type_name)) = 0 THEN NoTypeFilter
    ELSE LET normalized == ToLowercase(TrimStart(Trim(type_name), {"."})) IN
         IF \E k \in KnownTypes : normalized \in k.family
         THEN LET k == CHOOSE k \in KnownTypes : normalized \in k.family
              IN [kind |-> "Known", exts |-> k.exts, names |-> k.names]
         ELSE [kind |-> "Custom", value |-> normalized]

\* TypeFilter::match_ext; the Custom arm binds the filter's own value as
\* `ext` and compares it with itself
MatchExt(filter, ext) ==
    IF filter.kind = "Known"
    THEN \E e \in filter.exts : EqIgnoreAsciiCase(ext, e)
    ELSE EqIgnoreAsciiCase(filter.value, filter.value)

\* TypeFilter::match_name
MatchName(filter, name) ==
    IF filter.kind = "Known"
    THEN \E n \in filter.names : EqIgnoreAsciiCase(name, n)
    ELSE EqIgnoreAsciiCase(filter.value, name)

\* Path::extension of a file name, <<>> for none: the text after the last
\* dot, unless the only dot is the leading one
ExtensionOf(name) ==
    IF \E i \in 2..Len(name) : name[i] = "."
    THEN LET last == CHOOSE i \in 2..Len(name) :
                        /\ name[i] = "."
                        /\ \A j \in (i + 1)..Len(name) : name[j] # "."
         IN SubSeq(name, last + 1, Len(name))
    ELSE <<>>

\* matches_type_filter, on the file name of the path
MatchesTypeFilter(name, filter) ==
    IF MatchName(filter, name) THEN TRUE
    ELSE IF Len(ExtensionOf(name)) = 0 THEN FALSE
    ELSE MatchExt(filter, ExtensionOf(name))

\* the candidate test of collect_files and of the single-file path of grep_sync
PassesTypeFilter(name, type_name) ==
    LET filter == ResolveTypeFilter(type_name) IN
    IF filter.kind = "NoFilter" THEN TRUE ELSE MatchesTypeFilter(name, filter)

\* ------------------------------------------- paths and patterns (glob.rs)
\* ".git"
DotGit == <<".", "g", "i", "t">>
\* "node_modules"
NodeModules == <<"n", "o", "d", "e", "_", "m", "o", "d", "u", "l", "e", "s">>
Slash == <<"/">>

RECURSIVE SplitPath(_)
\* Path::components of a relative slash-separated path
SplitPath(t) ==
    IF Len(t) = 0 THEN <<>>
    ELSE IF \E i \in 1..Len(t) : t[i] = "/"
    THEN LET first == CHOOSE i \in 1..Len(t) :
                         t[i] = "/" /\ \A j \in 1..(i - 1) : t[j] # "/"
         IN (IF first > 1 THEN <<SubSeq(t, 1, first - 1)>> ELSE <<>>)
            \o SplitPath(SubSeq(t, first + 1, Len(t)))
    ELSE <<t>>

\* contains_component
ContainsComponent(path, target) ==
    LET components == SplitPath(path)
    IN \E i \in 1..Len(components) : components[i] = target

\* should_skip_path without the VCS rule
ShouldSkipPathKeepsGit(path, mentions_node_modules) ==
    ~mentions_node_modules /\ ContainsComponent(path, NodeModules)

\* should_skip_path
ShouldSkipPath(path, mentions_node_modules) ==
    IF ContainsComponent(path, DotGit) THEN TRUE
    ELSE IF ~mentions_node_modules /\ ContainsComponent(path, NodeModules) THEN TRUE
    ELSE FALSE

\* build_glob_pattern of glob.rs (not Windows)
BuildGlobPattern(glob) ==
    IF ContainsText(glob, Slash) \/ StartsWith(glob, <<"*", "*">>) THEN glob
    ELSE <<"*", "*", "/">> \o glob

\* build_glob_pattern of grep.rs: backslashes become slashes first
GrepBuildGlobPattern(glob) ==
    LET normalized == [i \in 1..Len(glob) |-> IF glob[i] = "\\" THEN "/" ELSE glob[i]]
    IN IF ContainsText(normalized, Slash) \/ StartsWith(normalized, <<"*", "*", "/">>)
       THEN normalized
       ELSE <<"*", "*", "/">> \o normalized

\* Glob::new: the patterns of the model fail to compile exactly when a
\* character class is left open
GlobCompiles(pattern) ==
    \A i \in 1..Len(pattern) :
        pattern[i] = "[" => \E j \in (i + 1)..Len(pattern) : pattern[j] = "]"

RECURSIVE GlobMatches(_, _)
\* GlobSet::is_match for the wildcards of the model: "**/" at a component
\* start matches any number of directories, "/**" at the end everything
\* below, "*" any run of characters, "?" one character
GlobMatches(pattern, text) ==
    IF Len(pattern) = 0 THEN Len(text) = 0
    ELSE IF StartsWith(pattern, <<"*", "*", "/">>) THEN
        LET rest == SubSeq(pattern, 4, Len(pattern)) IN
        \/ GlobMatches(rest, text)
        \/ \E i \in 1..Len(text) :
              text[i] = "/" /\ GlobMatches(rest, SubSeq(text, i + 1, Len(text)))
    ELSE IF pattern = <<"/", "*", "*">> THEN Len(text) > 1 /\ text[1] = "/"
    ELSE IF pattern[1] = "*" THEN
        \E k \in 0..Len(text) :
            GlobMatches(Tail(pattern), SubSeq(text, k + 1, Len(text)))
    ELSE IF pattern[1] = "?" THEN
        Len(text) > 0 /\ GlobMatches(Tail(pattern), Tail(text))
    ELSE Len(text) > 0 /\ text[1] = pattern[1]
            /\ GlobMatches(Tail(pattern), Tail(text))

\* --------------------------------------------------- the filesystem
NameA == <<"a", ".", "t", "s">>
NameB == <<"b", ".", "t", "s">>
NameD == <<"d", ".", "t", "s">>
NameE == <<"e", ".", "t", "s">>
\* a symbolic link (links are not followed)
NameL == <<"l", ".", "t", "s">>
\* a file the process may not open (permission denied)
NameP == <<"p", ".", "t", "s">>
\* a file that opens but whose read fails with an I/O error
NameQ == <<"q", ".", "t", "s">>
NameSub == <<"s", "u", "b">>
\* ".ignore", the ignore file; its one rule is "node_modules"
NameIgnore == <<".", "i", "g", "n", "o", "r", "e">>

PathGitFile == DotGit \o Slash \o <<"h", ".", "t", "s">>
PathNm == NameSub \o Slash \o NodeModules
PathC == PathNm \o Slash \o <<"c", ".", "t", "s">>
\* a file whose name begins with the name of the directory next to it
NameS == NameSub \o <<".", "t", "s">>

\* every entry under the search root, in the walker's order
\* (sort_by_file_path, depth first), as classify_file_type sees it: its
\* kind and its modification time in ms, None when the time cannot be read
AllEntries ==
    << [path |-> DotGit,      file_type |-> "Dir",     mtime |-> 1],
       [path |-> PathGitFile, file_type |-> "File",    mtime |-> 1],
       [path |-> NameIgnore,  file_type |-> "File",    mtime |-> 1],
       [path |-> NameA,       file_type |-> "File",    mtime |-> 2],
       [path |-> NameB,       file_type |-> "File",    mtime |-> 1],
       [path |-> NameD,       file_type |-> "File",    mtime |-> 2],
       [path |-> NameE,       file_type |-> "File",    mtime |-> None],
       [path |-> NameL,       file_type |-> "Symlink", mtime |-> 3],
       [path |-> NameP,       file_type |-> "File",    mtime |-> 0],
       [path |-> NameQ,       file_type |-> "File",    mtime |-> 3],
       [path |-> NameSub,     file_type |-> "Dir",     mtime |-> 1],
       [path |-> PathNm,      file_type |-> "Dir",     mtime |-> 1],
       [path |-> PathC,       file_type |-> "File",    mtime |-> 3],
       [path |-> NameS,       file_type |-> "File",    mtime |-> 1] >>

\* the lines of each file, TRUE = the line matches the regex "foo"
FileContent(path) ==
    CASE path = NameA -> <<FALSE, FALSE>>
      [] path = NameB -> <<FALSE, FALSE, TRUE>>
      [] path = NameD -> <<TRUE, FALSE, TRUE>>
      [] path = NameE -> <<TRUE, TRUE, TRUE>>
      [] path = PathC -> <<TRUE>>
      [] path = NameS -> <<TRUE, TRUE>>
      [] path = PathGitFile -> <<TRUE, TRUE>>
      [] OTHER -> <<FALSE>>

\* File::open(path) fails
OpenFails(path) == path = NameP

\* reading the opened file fails: search_reader returns Err
ReadFails(path) == path = NameQ

\* an entry exists: a file of the tree, or a directory above one
Exists(e, files) ==
    IF e.file_type # "Dir" THEN e.path \in files
    ELSE \E f \in files : StartsWith(f, e.path \o Slash)

\* WalkBuilder::hidden: a dot name hides the entry and what lies below it
IsHidden(path) ==
    LET components == SplitPath(path)
    IN \E i \in 1..Len(components) : components[i][1] = "."

\* the ignore-rule evaluator: the rule of the ignore file, when there is one
IsIgnored(path, files) ==
    NameIgnore \in files /\ ContainsComponent(path, NodeModules)

\* the entries builder.build() yields below the root, in order
WalkerYields(files, include_hidden, use_ignore) ==
    LET Visible(e) == /\ Exists(e, files)
                      /\ (include_hidden \/ ~IsHidden(e.path))
                      /\ ~(use_ignore /\ IsIgnored(e.path, files))
    IN SelectSeq(AllEntries, Visible)

\* ------------------------------------------ cancellation (crate::task)
\* A call's token as the model sees it: cancel_at = None never trips,
\* cancel_at = n lets n heartbeats pass and fails every later one (0: the
\* token is tripped when the call begins).
\* CancelToken::heartbeat, the beat-th of the call
HeartbeatFails(cancel_at, beat) == cancel_at # None /\ beat > cancel_at

\* ------------------------------------------------ DiscoveryCache (glob.rs)
MAX_GLOB_CACHE_ENTRIES == 16

\* the search root of the model
Root == <<"/", "r">>

\* GlobCacheKey
CacheKeys == [root : {Root}, include_hidden : BOOLEAN, use_gitignore : BOOLEAN]

\* no GlobCacheEntry under a key
NoEntry == [expires_at |-> -1, entries |-> <<>>]

EmptyCache == [k \in CacheKeys |-> NoEntry]

\* GLOB_CACHE.len()
CacheLen(c) == Cardinality({k \in DOMAIN c : c[k] # NoEntry})

\* the loop of collect_entries over what the walker yields: one heartbeat
\* per item, the root's first; VCS entries are dropped, node_modules is
\* kept for the caller
CollectLoop(yields, cancel_at, beats) ==
    IF HeartbeatFails(cancel_at, beats + 1 + Len(yields))
    THEN [ok |-> FALSE, entries |-> <<>>, beats |-> cancel_at + 1]
    ELSE [ok |-> TRUE,
          entries |-> SelectSeq(yields, LAMBDA e : ~ShouldSkipPath(e.path, TRUE)),
          beats |-> beats + 1 + Len(yields)]

\* collect_entries
CollectEntries(files, include_hidden, use_gitignore, cancel_at, beats) ==
    CollectLoop(WalkerYields(files, include_hidden, use_gitignore),
                cancel_at, beats)

\* get_entries_with_cache with cache_ttl_ms = 0: the walk r, no cache
Uncached(c, r) ==
    [ok |-> r.ok, blocked |-> FALSE, entries |-> r.entries, beats |-> r.beats,
     cache |-> c, walked |-> TRUE, cache_read |-> FALSE,
     cache_write |-> FALSE, inserted |-> FALSE]

\* get_entries_with_cache after GLOB_CACHE.get found nothing: the walk r is
\* stored when it succeeded
Stored(c, key, expires_at, r) ==
    IF ~r.ok
    THEN [ok |-> FALSE, blocked |-> FALSE, entries |-> <<>>, beats |-> r.beats,
          cache |-> c, walked |-> TRUE, cache_read |-> TRUE,
          cache_write |-> FALSE, inserted |-> FALSE]
    ELSE [ok |-> TRUE, blocked |-> FALSE, entries |-> r.entries,
          beats |-> r.beats,
          cache |-> [c EXCEPT ![key] = [expires_at |-> expires_at,
                                        entries    |-> r.entries]],
          walked |-> TRUE, cache_read |-> TRUE, cache_write |-> TRUE,
          inserted |-> TRUE]

\* get_entries_with_cache up to the insertion; the eviction follows in
\* Evicted. `entry`, the guard GLOB_CACHE.get returns, holds the read lock of
\* the key's shard until the end of the `if let` block; for an expired entry
\* GLOB_CACHE.remove, inside that block, asks for the write lock of the same
\* shard on the same thread and never gets it: the call does not return.
\* Keys are taken to lie in different shards, so that a call blocked on one
\* key leaves the others usable.
GetEntriesWithCache(c, clock, files, key, cache_ttl_ms, cancel_at, beats) ==
    IF cache_ttl_ms = 0 THEN
        Uncached(c, CollectEntries(files, key.include_hidden,
                                   key.use_gitignore, cancel_at, beats))
    ELSE IF c[key] # NoEntry /\ c[key].expires_at > clock THEN
        [ok |-> TRUE, blocked |-> FALSE, entries |-> c[key].entries,
         beats |-> beats, cache |-> c, walked |-> FALSE, cache_read |-> TRUE,
         cache_write |-> FALSE, inserted |-> FALSE]
    ELSE IF c[key] # NoEntry THEN
        [ok |-> FALSE, blocked |-> TRUE, entries |-> <<>>, beats |-> beats,
         cache |-> c, walked |-> FALSE, cache_read |-> TRUE,
         cache_write |-> FALSE, inserted |-> FALSE]
    ELSE
        Stored(c, key, clock + cache_ttl_ms,
               CollectEntries(files, key.include_hidden, key.use_gitignore,
                              cancel_at, beats))

\* the tail of get_entries_with_cache: over capacity, one entry with the least
\* expires_at goes; among equals the map's iteration order decides
Evicted(c, inserted) ==
    IF inserted /\ CacheLen(c) > MAX_GLOB_CACHE_ENTRIES
    THEN { [c EXCEPT ![k] = NoEntry] :
             k \in { k \in DOMAIN c :
                       /\ c[k] # NoEntry
                       /\ \A k2 \in DOMAIN c :
                            c[k2] # NoEntry => c[k].expires_at <= c[k2].expires_at } }
    ELSE {c}

\* ------------------------------------------------------- glob (glob.rs)
\* the tests of run_glob's loop that drop an entry: should_skip_path, the
\* pattern, the file type
GlobDrops(e, config, glob_pattern) ==
    IF ShouldSkipPath(e.path, config.mentions_node_modules) THEN TRUE
    ELSE IF ~GlobMatches(glob_pattern, e.path) THEN TRUE
    ELSE config.file_type_filter # "Any" /\ config.file_type_filter # e.file_type

\* a match of run_glob's loop: the callback fires, then the entry is pushed
GlobTakes(acc, e) ==
    [acc EXCEPT !.beats = @ + 1, !.notified = Append(@, e),
                !.matches = Append(@, e)]

RECURSIVE GlobLoop(_, _, _, _, _, _)
\* the loop of run_glob over the entries, from entry i on; acc carries the
\* matches, the callbacks fired and the heartbeats so far
GlobLoop(entries, i, config, glob_pattern, cancel_at, acc) ==
    IF i > Len(entries) THEN [acc EXCEPT !.ok = TRUE]
    ELSE IF HeartbeatFails(cancel_at, acc.beats + 1)
    THEN [acc EXCEPT !.ok = FALSE, !.beats = @ + 1]
    ELSE IF GlobDrops(entries[i], config, glob_pattern)
    THEN GlobLoop(entries, i + 1, config, glob_pattern, cancel_at,
                  [acc EXCEPT !.beats = @ + 1])
    ELSE IF ~config.sort_by_mtime /\ config.max_results # None
            /\ Len(acc.matches) + 1 >= config.max_results
    THEN [GlobTakes(acc, entries[i]) EXCEPT !.ok = TRUE]
    ELSE GlobLoop(entries, i + 1, config, glob_pattern, cancel_at,
                  GlobTakes(acc, entries[i]))

\* what a call leaves behind when it fails on its input; the outcome of a
\* call is "invalid", "cancelled", "ok", or "blocked" when it never returns
InvalidInput(c) ==
    [ outcome |-> "invalid", matches |-> <<>>, notified |-> <<>>,
      total_matches |-> 0, files_with_matches |-> 0, files_searched |-> 0,
      limit_reached |-> FALSE,
      entries |-> <<>>, cache |-> c, inserted |-> FALSE, walked |-> FALSE,
      opened |-> <<>>, cache_read |-> FALSE, cache_write |-> FALSE ]

\* what a call that got the entries g leaves behind, before its loop
Discovered(g) ==
    [ InvalidInput(g.cache) EXCEPT
        !.inserted = g.inserted, !.walked = g.walked,
        !.cache_read = g.cache_read, !.cache_write = g.cache_write ]

\* run_glob once its loop l over the entries has ended
GlobDone(base, entries, l) ==
    IF ~l.ok
    THEN [base EXCEPT !.outcome = "cancelled", !.entries = entries,
                      !.notified = l.notified]
    ELSE [base EXCEPT !.outcome = "ok", !.entries = entries,
                      !.matches = l.matches,
                      !.total_matches = Len(l.matches),
                      !.notified = l.notified]

\* a.mtime.unwrap_or(0.0)
MtimeOf(e) == IF e.mtime = None THEN 0 ELSE e.mtime

RECURSIVE SortByMtimeTiesReversed(_)
\* a sort by descending mtime that does not keep the order of equal entries
SortByMtimeTiesReversed(seq) ==
    IF Len(seq) <= 1 THEN seq
    ELSE LET rest == SortByMtimeTiesReversed(SubSeq(seq, 1, Len(seq) - 1))
             x    == seq[Len(seq)]
             k    == Cardinality({i \in 1..Len(rest) :
                        MtimeOf(rest[i]) > MtimeOf(x)})
         IN SubSeq(rest, 1, k) \o <<x>> \o SubSeq(rest, k + 1, Len(rest))

RECURSIVE SortByMtime(_)
\* matches.sort_by on mtime, descending: a stable insertion sort, the last
\* entry goes behind every entry that is not older than it
SortByMtime(seq) ==
    IF Len(seq) <= 1 THEN seq
    ELSE LET rest == SortByMtime(SubSeq(seq, 1, Len(seq) - 1))
             x    == seq[Len(seq)]
             k    == Cardinality({i \in 1..Len(rest) :
                        MtimeOf(rest[i]) >= MtimeOf(x)})
         IN SubSeq(rest, 1, k) \o <<x>> \o SubSeq(rest, k + 1, Len(rest))

\* the sort and truncation that end run_glob's loop l when sort_by_mtime
GlobSorted(config, l) ==
    IF ~l.ok \/ ~config.sort_by_mtime THEN l
    ELSE IF config.max_results = None
    THEN [l EXCEPT !.matches = SortByMtime(@)]
    ELSE [l EXCEPT !.matches = SubSeq(SortByMtime(@), 1,
                                      Min(config.max_results, Len(@)))]

\* run_glob from the entries g on
GlobOver(config, glob_pattern, g, cancel_at) ==
    IF g.blocked THEN [Discovered(g) EXCEPT !.outcome = "blocked"]
    ELSE IF ~g.ok THEN [Discovered(g) EXCEPT !.outcome = "cancelled"]
    ELSE GlobDone(Discovered(g), g.entries,
                  GlobSorted(config,
                      GlobLoop(g.entries, 1, config, glob_pattern, cancel_at,
                               [ok |-> TRUE, matches |-> <<>>,
                                notified |-> <<>>, beats |-> g.beats])))

\* GlobCacheKey of a GlobConfig
KeyOf(config) ==
    [root |-> config.root, include_hidden |-> config.include_hidden,
     use_gitignore |-> config.use_gitignore]

\* run_glob that asks for the entries before it compiles the pattern
RunGlobCompilesLate(config, c, clock, files, cancel_at) ==
    IF config.max_results = 0
    THEN [InvalidInput(c) EXCEPT
            !.outcome = IF GlobCompiles(BuildGlobPattern(config.pattern))
                        THEN "ok" ELSE "invalid"]
    ELSE IF ~GlobCompiles(BuildGlobPattern(config.pattern))
    THEN [ Discovered(GetEntriesWithCache(c, clock, files, KeyOf(config),
                                          config.cache_ttl_ms, cancel_at, 0))
             EXCEPT !.outcome = "invalid" ]
    ELSE GlobOver(config, BuildGlobPattern(config.pattern),
                  GetEntriesWithCache(c, clock, files, KeyOf(config),
                                      config.cache_ttl_ms, cancel_at, 0),
                  cancel_at)

\* run_glob
RunGlob(config, c, clock, files, cancel_at) ==
    IF ~GlobCompiles(BuildGlobPattern(config.pattern)) THEN InvalidInput(c)
    ELSE IF config.max_results = 0
    THEN [InvalidInput(c) EXCEPT !.outcome = "ok"]
    ELSE GlobOver(config, BuildGlobPattern(config.pattern),
                  GetEntriesWithCache(c, clock, files, KeyOf(config),
                                      config.cache_ttl_ms, cancel_at, 0),
                  cancel_at)

\* std::fs::metadata of the search path: "dir" | "file" | "missing"
PathKind(path, files) ==
    IF path = Root THEN "dir"
    ELSE IF \E f \in files : path = Root \o Slash \o f THEN "file"
    ELSE "missing"

\* glob(): the defaults of the options, resolve_search_path, then run_glob.
\* include_node_modules is "unset" | "true" | "false".
Glob(options, c, clock, files, cancel_at) ==
    LET trimmed == Trim(options.pattern)
        pattern == IF Len(trimmed) = 0 THEN <<"*">> ELSE trimmed
    IN IF PathKind(options.path, files) # "dir" THEN InvalidInput(c)
       ELSE RunGlob(
              [ root                  |-> options.path,
                pattern               |-> pattern,
                include_hidden        |-> options.hidden,
                file_type_filter      |-> options.file_type,
                max_results           |-> options.max_results,
                use_gitignore         |-> options.gitignore,
                mentions_node_modules |->
                    IF options.include_node_modules = "unset"
                    THEN ContainsText(pattern, NodeModules)
                    ELSE options.include_node_modules = "true",
                sort_by_mtime         |-> options.sort_by_mtime,
                cache_ttl_ms          |-> options.cache_ttl_ms ],
              c, clock, files, cancel_at)

\* -------------------------------------------------- fuzzyFind (grep.rs)
DEFAULT_FUZZY_CACHE_TTL_MS == 1000

\* the characters of the model in the order of their bytes
ByteOrder ==
    << " ", "(", "*", "-", ".", "/", "?", "A", "B", "C", "H", "S", "X", "[",
       "\\", "]", "_", "a", "b", "c", "d", "e", "f", "g", "h", "i", "j", "k",
       "l", "m", "n", "o", "p", "q", "r", "s", "t", "u", "v", "w", "x", "y",
       "z" >>

ByteOf(ch) == CHOOSE i \in 1..Len(ByteOrder) : ByteOrder[i] = ch

\* str::cmp is Less
TextLess(a, b) ==
    \E i \in 1..(Len(b)) :
        /\ \A j \in 1..(i - 1) : j <= Len(a) /\ a[j] = b[j]
        /\ i - 1 <= Len(a)
        /\ (i > Len(a) \/ ByteOf(a[i]) < ByteOf(b[i]))

\* the comparator of scored_entries.sort_by: score descending, then path
FuzzyBefore(a, b) ==
    a.score > b.score \/ (a.score = b.score /\ TextLess(a.path, b.path))

RECURSIVE SortScored(_)
\* scored_entries.sort_by, a stable insertion sort
SortScored(seq) ==
    IF Len(seq) <= 1 THEN seq
    ELSE LET rest == SortScored(SubSeq(seq, 1, Len(seq) - 1))
             x    == seq[Len(seq)]
             k    == Cardinality({i \in 1..Len(rest) : ~FuzzyBefore(x, rest[i])})
         IN SubSeq(rest, 1, k) \o <<x>> \o SubSeq(rest, k + 1, Len(rest))

\* the path fuzzy_find_sync scores and returns: directories get a slash
FuzzyPath(e) == IF e.file_type = "Dir" THEN e.path \o Slash ELSE e.path

\* the FuzzyFindMatch of an entry, score 0 for an entry the loop skips
FuzzyScored(e, query_lower, normalized_query) ==
    [ path |-> FuzzyPath(e), is_directory |-> e.file_type = "Dir",
      score |-> IF e.file_type = "Symlink" THEN 0
                ELSE ScoreFuzzyPath(FuzzyPath(e), e.file_type = "Dir",
                                    query_lower, normalized_query) ]

\* scored_entries.push unless the score is 0
FuzzyPush(acc, m) ==
    IF m.score = 0 THEN [acc EXCEPT !.beats = @ + 1]
    ELSE [acc EXCEPT !.beats = @ + 1, !.matches = Append(@, m)]

RECURSIVE FuzzyLoop(_, _, _, _, _, _)
\* the loop of fuzzy_find_sync over the entries
FuzzyLoop(entries, i, query_lower, normalized_query, cancel_at, acc) ==
    IF i > Len(entries) THEN [acc EXCEPT !.ok = TRUE]
    ELSE IF HeartbeatFails(cancel_at, acc.beats + 1)
    THEN [acc EXCEPT !.ok = FALSE, !.beats = @ + 1]
    ELSE FuzzyLoop(entries, i + 1, query_lower, normalized_query, cancel_at,
                   FuzzyPush(acc, FuzzyScored(entries[i], query_lower,
                                              normalized_query)))

\* fuzzy_find_sync once its loop l over the entries has ended
FuzzyDone(base, entries, l, max_results) ==
    IF ~l.ok
    THEN [base EXCEPT !.outcome = "cancelled", !.entries = entries]
    ELSE [base EXCEPT
            !.outcome = "ok", !.entries = entries,
            !.total_matches = Len(l.matches),
            !.matches = SubSeq(l.matches, 1, Min(max_results, Len(l.matches)))]

\* the sort that ends the loop
FuzzySorted(l) == IF l.ok THEN [l EXCEPT !.matches = SortScored(@)] ELSE l

\* fuzzy_find_sync from the entries g on
FuzzyOver(query_lower, max_results, g, cancel_at) ==
    IF g.blocked THEN [Discovered(g) EXCEPT !.outcome = "blocked"]
    ELSE IF ~g.ok THEN [Discovered(g) EXCEPT !.outcome = "cancelled"]
    ELSE FuzzyDone(Discovered(g), g.entries,
                   FuzzySorted(FuzzyLoop(g.entries, 1, query_lower,
                                         NormalizeFuzzyText(query_lower),
                                         cancel_at,
                                         [ok |-> TRUE, matches |-> <<>>,
                                          beats |-> g.beats])),
                   max_results)

\* fuzzy_find_sync from the trimmed, lowercased query on
FuzzyFindQuery(config, query_lower, max_results, c, clock, files, cancel_at) ==
    IF max_results = 0 THEN [InvalidInput(c) EXCEPT !.outcome = "ok"]
    ELSE IF Len(query_lower) # 0 /\ Len(NormalizeFuzzyText(query_lower)) = 0
    THEN [InvalidInput(c) EXCEPT !.outcome = "ok"]
    ELSE FuzzyOver(query_lower, max_results,
                   GetEntriesWithCache(c, clock, files,
                       [root |-> config.path, include_hidden |-> config.hidden,
                        use_gitignore |-> config.gitignore],
                       IF config.cache_ttl_ms = None
                       THEN DEFAULT_FUZZY_CACHE_TTL_MS ELSE config.cache_ttl_ms,
                       cancel_at, 0),
                   cancel_at)

\* fuzzy_find_sync; max_results and cache_ttl_ms are None when not given
FuzzyFindSync(config, c, clock, files, cancel_at) ==
    IF PathKind(config.path, files) # "dir" THEN InvalidInput(c)
    ELSE FuzzyFindQuery(config, ToLowercase(Trim(config.query)),
                        IF config.max_results = None THEN 100
                        ELSE config.max_results,
                        c, clock, files, cancel_at)

\* ------------------------------------------------------- grep (grep.rs)
\* RegexMatcherBuilder::build: the patterns of the model fail to compile
\* exactly when a group is left open
RegexCompiles(pattern) ==
    \A i \in 1..Len(pattern) :
        pattern[i] = "(" => \E j \in (i + 1)..Len(pattern) : pattern[j] = ")"

\* compile_glob of grep.rs: no glob, or a blank one, is no filter
GrepGlobCompiles(glob) ==
    Len(Trim(glob)) = 0 \/ GlobCompiles(GrepBuildGlobPattern(Trim(glob)))

GrepGlobAccepts(glob, relative) ==
    Len(Trim(glob)) = 0 \/ GlobMatches(GrepBuildGlobPattern(Trim(glob)), relative)

\* collect_files: the walker always honours the ignore files, .git is
\* pruned by name, and only files that pass the glob and the type filter stay
CollectFiles(files, glob, include_hidden, type_filter) ==
    LET yields == WalkerYields(files, include_hidden, TRUE)
        Kept(e) == /\ ~ContainsComponent(e.path, DotGit)
                   /\ e.file_type = "File"
                   /\ GrepGlobAccepts(glob, e.path)
                   /\ PassesTypeFilter(FileNameOf(e.path), type_filter)
        kept == SelectSeq(yields, Kept)
    IN [i \in 1..Len(kept) |-> kept[i].path]

\* to_grep_match, and the one record per file of count mode
GrepMatchesOf(path, search, mode) ==
    IF mode = "content"
    THEN [i \in 1..Len(search.matches) |->
            [ path           |-> path,
              line_number    |-> search.matches[i].line_number,
              context_before |-> search.matches[i].context_before,
              context_after  |-> search.matches[i].context_after,
              match_count    |-> None ]]
    ELSE << [ path |-> path, line_number |-> 0, context_before |-> <<>>,
              context_after |-> <<>>, match_count |-> search.match_count ] >>

\* the results left in the order collected
Unsorted(seq) == seq

RECURSIVE SortByPath(_)
\* results.sort_by on relative_path, a stable insertion sort
SortByPath(seq) ==
    IF Len(seq) <= 1 THEN seq
    ELSE LET rest == SortByPath(SubSeq(seq, 1, Len(seq) - 1))
             x    == seq[Len(seq)]
             k    == Cardinality({i \in 1..Len(rest) :
                        ~TextLess(x.relative_path, rest[i].relative_path)})
         IN SubSeq(rest, 1, k) \o <<x>> \o SubSeq(rest, k + 1, Len(rest))

\* run_parallel_search: every file that opens and reads is searched without
\* limit or offset (filter_map drops the others), and the results are put in
\* path order
RunParallelSearch(entries, p) ==
    LET unlimited == [p EXCEPT !.max_count = None, !.offset = 0]
        Searched(e) == ~OpenFails(e) /\ ~ReadFails(e)
        done == SelectSeq(entries, Searched)
    IN SortByPath([i \in 1..Len(done) |->
                     [ relative_path |-> done[i],
                       search |-> RunSearchReader(FileContent(done[i]),
                                                  unlimited) ]])

RECURSIVE MergeParallel(_, _, _, _)
\* the merge loop of grep_sync over the sorted per-file results
MergeParallel(results, i, mode, acc) ==
    IF i > Len(results) THEN acc
    ELSE IF results[i].search.match_count = 0
    THEN MergeParallel(results, i + 1, mode, acc)
    ELSE MergeParallel(results, i + 1, mode,
           [acc EXCEPT
              !.files_with_matches = @ + 1,
              !.total_matches = @ + results[i].search.match_count,
              !.matches = @ \o GrepMatchesOf(results[i].relative_path,
                                             results[i].search, mode)])

RECURSIVE SequentialLoopKeepsOffset(_, _, _, _)
\* a loop that hands every file the call's offset, whatever the earlier
\* files counted
SequentialLoopKeepsOffset(paths, i, p, acc) ==
    IF i > Len(paths) \/ acc.limit_reached THEN acc
    ELSE
        LET remaining == IF p.max_count = None THEN None
                         ELSE Max(p.max_count - acc.collected, 0)
        IN IF remaining = 0 THEN [acc EXCEPT !.limit_reached = TRUE]
           ELSE IF OpenFails(paths[i])
           THEN SequentialLoopKeepsOffset(paths, i + 1, p, acc)
           ELSE
             LET search == RunSearchReader(FileContent(paths[i]),
                              [p EXCEPT !.max_count = remaining])
                 a1 == [acc EXCEPT !.files_searched = @ + 1,
                                   !.opened = Append(@, paths[i])]
             IN IF ReadFails(paths[i]) \/ search.match_count = 0
                THEN SequentialLoopKeepsOffset(paths, i + 1, p, a1)
                ELSE LET a2 == [a1 EXCEPT
                                  !.files_with_matches = @ + 1,
                                  !.total_matches = @ + search.match_count,
                                  !.collected = @ + search.collected,
                                  !.matches = @ \o GrepMatchesOf(paths[i],
                                                                 search, p.mode)]
                     IN SequentialLoopKeepsOffset(paths, i + 1, p,
                          [a2 EXCEPT !.limit_reached =
                             \/ search.limit_reached
                             \/ (p.max_count # None
                                 /\ a2.collected >= p.max_count)])

RECURSIVE SequentialLoop(_, _, _, _)
\* the loop of run_sequential_search; acc carries its locals
SequentialLoop(paths, i, p, acc) ==
    IF i > Len(paths) \/ acc.limit_reached THEN acc
    ELSE
        LET file_offset == Max(p.offset - acc.total_matches, 0)
            remaining   == IF p.max_count = None THEN None
                           ELSE Max(p.max_count - acc.collected, 0)
        IN IF remaining = 0 THEN [acc EXCEPT !.limit_reached = TRUE]
           ELSE IF OpenFails(paths[i]) THEN SequentialLoop(paths, i + 1, p, acc)
           ELSE
             LET search == RunSearchReader(FileContent(paths[i]),
                              [p EXCEPT !.max_count = remaining,
                                        !.offset = file_offset])
                 a1 == [acc EXCEPT !.files_searched = @ + 1,
                                   !.opened = Append(@, paths[i])]
             IN IF ReadFails(paths[i]) \/ search.match_count = 0
                THEN SequentialLoop(paths, i + 1, p, a1)
                ELSE LET a2 == [a1 EXCEPT
                                  !.files_with_matches = @ + 1,
                                  !.total_matches = @ + search.match_count,
                                  !.collected = @ + search.collected,
                                  !.matches = @ \o GrepMatchesOf(paths[i],
                                                                 search, p.mode)]
                     IN SequentialLoop(paths, i + 1, p,
                          [a2 EXCEPT !.limit_reached =
                             \/ search.limit_reached
                             \/ (p.max_count # None
                                 /\ a2.collected >= p.max_count)])

\* a sequential search that forgets the limit
RunSequentialSearchUnlimited(paths, p) ==
    SequentialLoop(paths, 1, [p EXCEPT !.max_count = None],
        [ matches |-> <<>>, total_matches |-> 0, collected |-> 0,
          files_with_matches |-> 0, files_searched |-> 0,
          limit_reached |-> FALSE, opened |-> <<>> ])

\* run_sequential_search
RunSequentialSearch(paths, p) ==
    SequentialLoop(paths, 1, p,
        [ matches |-> <<>>, total_matches |-> 0, collected |-> 0,
          files_with_matches |-> 0, files_searched |-> 0,
          limit_reached |-> FALSE, opened |-> <<>> ])

\* SearchParams of grep_sync: context only in content mode
GrepParams(options) ==
    [ mode           |-> options.mode,
      max_count      |-> options.max_count,
      offset         |-> options.offset,
      context_before |-> IF options.mode = "content"
                         THEN options.context_before ELSE 0,
      context_after  |-> IF options.mode = "content"
                         THEN options.context_after ELSE 0 ]

\* grep_sync on a single file, from the result of its search on: no
\* heartbeat, no callback
GrepFileDone(c, path, relative, p, search) ==
    IF search.match_count = 0
    THEN [InvalidInput(c) EXCEPT !.outcome = "ok", !.opened = <<relative>>,
                                 !.files_searched = 1]
    ELSE [InvalidInput(c) EXCEPT
            !.outcome = "ok", !.opened = <<relative>>, !.files_searched = 1,
            !.matches = GrepMatchesOf(path, search, p.mode),
            !.total_matches = search.match_count,
            !.files_with_matches = 1,
            !.limit_reached =
                \/ search.limit_reached
                \/ (p.max_count # None /\ search.collected >= p.max_count)]

\* grep_sync on a single file
GrepFile(options, c, relative) ==
    IF ~PassesTypeFilter(FileNameOf(options.path), options.type_filter)
    THEN [InvalidInput(c) EXCEPT !.outcome = "ok"]
    ELSE IF OpenFails(relative) THEN [InvalidInput(c) EXCEPT !.outcome = "ok"]
    ELSE IF ReadFails(relative)
    THEN [InvalidInput(c) EXCEPT !.outcome = "failed", !.opened = <<relative>>]
    ELSE GrepFileDone(c, options.path, relative, GrepParams(options),
                      RunSearchReader(FileContent(relative), GrepParams(options)))

\* the parallel branch of grep_sync after the merge m of the results
GrepMerged(base, entries, results, m) ==
    LET Opens(e) == ~OpenFails(e)
    IN [base EXCEPT !.outcome = "ok",
                    !.opened = SelectSeq(entries, Opens),
                    !.matches = m.matches,
                    !.notified = m.matches,
                    !.total_matches = m.total_matches,
                    !.files_with_matches = m.files_with_matches,
                    !.files_searched = Len(results)]

\* the parallel branch of grep_sync from the results of run_parallel_search on
GrepParallel(base, entries, p, results) ==
    GrepMerged(base, entries, results,
               MergeParallel(results, 1, p.mode,
                             [matches |-> <<>>, total_matches |-> 0,
                              files_with_matches |-> 0]))

\* the sequential branch of grep_sync after run_sequential_search returned r
GrepSequential(base, r) ==
    [base EXCEPT !.outcome = "ok",
                 !.opened = r.opened,
                 !.matches = r.matches,
                 !.notified = r.matches,
                 !.total_matches = r.total_matches,
                 !.files_with_matches = r.files_with_matches,
                 !.files_searched = r.files_searched,
                 !.limit_reached = r.limit_reached]

\* grep_sync on a directory, from the collected files on
GrepOver(base, entries, p, cancel_at) ==
    IF HeartbeatFails(cancel_at, 1) THEN [base EXCEPT !.outcome = "cancelled"]
    ELSE IF Len(entries) = 0 THEN [base EXCEPT !.outcome = "ok"]
    ELSE IF p.max_count = None /\ p.offset = 0
    THEN GrepParallel(base, entries, p, RunParallelSearch(entries, p))
    ELSE GrepSequential(base, RunSequentialSearch(entries, p))

\* the files collect_files found, on the record of the call
Collected(c, entries) ==
    [InvalidInput(c) EXCEPT
       !.walked = TRUE,
       !.entries = [i \in 1..Len(entries) |->
                      [path |-> entries[i], file_type |-> "File"]]]

\* grep_sync on a directory
GrepDir(options, c, entries, cancel_at) ==
    GrepOver(Collected(c, entries), entries, GrepParams(options), cancel_at)

\* grep_sync. options.hidden is "unset" | "true" | "false"; glob and
\* type_filter are <<>> when not given.
GrepSync(options, c, files, cancel_at) ==
    IF PathKind(options.path, files) = "missing" THEN InvalidInput(c)
    ELSE IF ~RegexCompiles(options.pattern) THEN InvalidInput(c)
    ELSE IF ~GrepGlobCompiles(options.glob) THEN InvalidInput(c)
    ELSE IF PathKind(options.path, files) = "file"
    THEN GrepFile(options, c,
                  SubSeq(options.path, Len(Root) + 2, Len(options.path)))
    ELSE GrepDir(options, c,
                 CollectFiles(files, options.glob, options.hidden # "false",
                              options.type_filter),
                 cancel_at)

\* ------------------------------------------------ process trees (ps.rs)
Pids == 1..MaxPid

\* a pid that was never given out, a process that has exited, and a
\* running process with its parent (0: a parent outside the table, init)
UnusedPid == [state |-> "unused", parent |-> 0]
ExitedPid == [state |-> "exited", parent |-> 0]
RunningUnder(q) == [state |-> "running", parent |-> q]

Running(ps, p) == p \in Pids /\ ps[p].state = "running"

RECURSIVE Ascending(_)
\* the pids of a set in ascending order
Ascending(set) ==
    IF set = {} THEN <<>>
    ELSE LET least == CHOOSE x \in set : \A y \in set : x <= y
         IN <<least>> \o Ascending(set \ {least})

\* fs::read_to_string("/proc/{pid}/task/{pid}/children"), split and parsed:
\* nothing when the read fails
ReadChildren(ps, pid) ==
    IF ~Running(ps, pid) THEN <<>>
    ELSE Ascending({c \in Pids : Running(ps, c) /\ ps[c].parent = pid})

\* platform::kill_pid: libc::kill(pid, signal) == 0
KillPid(ps, pid) == Running(ps, pid)

\* the process table after p is gone: its children go to init
Without(ps, p) ==
    [c \in Pids |-> IF c = p THEN ExitedPid
                    ELSE IF Running(ps, c) /\ ps[c].parent = p
                    THEN RunningUnder(0)
                    ELSE ps[c]]

\* what the signal does to a running target: SIGKILL ends it, any other
\* signal leaves it to the process
Signalled(ps, pid, signal) ==
    IF Running(ps, pid) /\ signal = "SIGKILL" THEN Without(ps, pid) ELSE ps

RECURSIVE Unwind(_)
\* the for loops that have no child left return
Unwind(frames) ==
    IF Len(frames) > 0 /\ Len(frames[Len(frames)].rest) = 0
    THEN Unwind(SubSeq(frames, 1, Len(frames) - 1))
    ELSE frames

\* no kill_tree call is running
NoKill ==
    [ pc |-> "idle", pid |-> 0, signal |-> "SIGKILL", frames |-> <<>>,
      descendants |-> <<>>, under |-> <<>>, i |-> 0, killed |-> 0,
      signalled |-> <<>> ]

\* ------------------------------------------------ components at rest
\* the threads that may call get_entries_with_cache
Threads == 1..MaxThreads

\* no GlobCacheKey
NoKey == [root |-> <<>>, include_hidden |-> FALSE, use_gitignore |-> FALSE]

\* a thread that is not in get_entries_with_cache
NoGet ==
    [ pc |-> "idle", key |-> NoKey, cache_ttl_ms |-> 0, cancel_at |-> None,
      start |-> 0, entries |-> <<>>, oldest_key |-> NoKey,
      outcome |-> "none", served |-> NoEntry ]

\* no parallel search is in progress
NoSearch ==
    [ pc |-> "idle", options |-> <<>>, entries |-> <<>>, slots |-> <<>>,
      finished |-> <<>> ]

ParIdle == par = NoSearch

\* no sequential search is in progress
NoSequential ==
    [ pc |-> "idle", options |-> <<>>, entries |-> <<>>, i |-> 0,
      acc |-> <<>>, fired |-> 0, events |-> <<>> ]

SeqIdle == seqRun = NoSequential

\* no line is on its way
NoLine ==
    [ pc |-> "idle", max_columns |-> None, kind |-> "none", bytes |-> <<>>,
      line |-> <<>>, truncated |-> FALSE ]

LineIdle == trunc = NoLine

\* no thread is in get_entries_with_cache
GetsIdle == gets = [t \in Threads |-> NoGet] /\ written = <<>>

\* no process is known, no kill_tree is running
PsIdle == procs = [p \in Pids |-> UnusedPid] /\ kt = NoKill

\* no search is running
ScanIdle ==
    /\ content = <<>>
    /\ params = [mode |-> "content", max_count |-> None, offset |-> 0,
                 context_before |-> 0, context_after |-> 0]
    /\ searcher = NewSearcher
    /\ scanPc = "idle"

NotScored == [path |-> <<>>, is_directory |-> FALSE, score |-> -1]

\* no entry is being scored
FuzzyIdle == fzQuery = <<>> /\ fzA = NotScored /\ fzB = NotScored

\* no candidate is being filtered
TypeIdle == tfType = <<>> /\ tfName = <<>> /\ tfPass = "unset"

\* no call has been made
NoCall ==
    [ op |-> "none", options |-> [path |-> <<>>], cancel_at |-> None,
      path_kind |-> "missing", files |-> {},
      cache_changed |-> FALSE, result |-> InvalidInput(EmptyCache) ]

\* nothing under the root, nothing cached
TreeIdle ==
    fs = {} /\ cache = EmptyCache /\ now = 0 /\ call = NoCall /\ ncalls = 0

\* ------------------------------------------------ search(): one content
Contents == UNION { [1..n -> BOOLEAN] : n \in 0..MaxLines }

ParamSet ==
    [ mode           : {"content", "count"},
      max_count      : {None} \cup (0..MaxCount),
      offset         : 0..MaxOffset,
      context_before : 0..MaxCtx,
      context_after  : 0..MaxCtx ]

ScanInit ==
    /\ content \in Contents
    /\ params \in ParamSet
    /\ searcher = NewSearcher
    /\ scanPc = "scanning"

InitScan == ScanInit /\ FuzzyIdle /\ TypeIdle /\ TreeIdle /\ PsIdle /\ GetsIdle /\ ParIdle /\ SeqIdle /\ LineIdle

\* the searcher consumes the next line of the content
ScanLine ==
    /\ scanPc = "scanning"
    /\ ~SearcherDone(searcher, content)
    /\ searcher' = SearcherStep(searcher, params, content)
    /\ UNCHANGED <<content, params, scanPc>>
    /\ UNCHANGED <<fuzzyVars, typeVars, treeVars, psVars, getVars, parVars, seqVars, lineVars>>

\* search_reader returns; search_sync builds the SearchResult
ScanFinish ==
    /\ scanPc = "scanning"
    /\ SearcherDone(searcher, content)
    /\ scanPc' = "done"
    /\ UNCHANGED <<content, params, searcher>>
    /\ UNCHANGED <<fuzzyVars, typeVars, treeVars, psVars, getVars, parVars, seqVars, lineVars>>

NextScan == ScanLine \/ ScanFinish

SpecScan == InitScan /\ [][NextScan]_vars

\* ------------------------------------------------ claims on the scanner
RECURSIVE RawMatchesFrom(_, _)
\* the line numbers of the matching lines of a content from line i on, ascending
RawMatchesFrom(lines, i) ==
    IF i > Len(lines) THEN <<>>
    ELSE IF lines[i] THEN <<i>> \o RawMatchesFrom(lines, i + 1)
    ELSE RawMatchesFrom(lines, i + 1)

RawMatches(lines) == RawMatchesFrom(lines, 1)

\* the line numbers of the records search() returns
ReturnedLines == [i \in 1..Len(searcher.sink.matches) |->
                    searcher.sink.matches[i].line_number]

\* C1: a content-mode search with offset k <= N and maxCount m >= 0 returns
\* exactly the raw matches k+1 .. min(k+m, N), in line order.
C1_OffsetLimitWindow ==
    (scanPc = "done" /\ params.mode = "content" /\ params.max_count # None
        /\ params.offset <= Len(RawMatches(content)))
    => ReturnedLines = SubSeq(RawMatches(content), params.offset + 1,
                              Min(params.offset + params.max_count,
                                  Len(RawMatches(content))))

\* the same window for maxCount >= 1 (and for no maxCount: all matches after k)
ScanWindowPositiveLimit ==
    (scanPc = "done" /\ params.mode = "content" /\ params.max_count # 0)
    => ReturnedLines = SubSeq(RawMatches(content), params.offset + 1,
                              IF params.max_count = None
                              THEN Len(RawMatches(content))
                              ELSE Min(params.offset + params.max_count,
                                       Len(RawMatches(content))))

Range(from, to) == [i \in 1..Max(to - from + 1, 0) |-> from + i - 1]

HasMatchIn(lines, from, to) ==
    \E i \in Max(from, 1)..Min(to, Len(lines)) : lines[i]

\* C8 as claimed: every returned match at line L with b lines before it and a
\* lines after it carries before-context L-b..L-1 and after-context
\* L+1..L+a, wherever the other matches are. (Stated for maxCount # 0, so
\* that a violation does not rest on the extra record of maxCount = 0.)
C8_ContextSymmetryAnyMatches ==
    (scanPc = "done" /\ params.mode = "content" /\ params.max_count # 0)
    => \A i \in 1..Len(searcher.sink.matches) :
         LET r == searcher.sink.matches[i]
             L == r.line_number
         IN (L - params.context_before >= 1
                /\ L + params.context_after <= Len(content))
            => /\ r.context_before = Range(L - params.context_before, L - 1)
               /\ r.context_after = Range(L + 1, L + params.context_after)

\* C8 amended: the before-context is L-b..L-1 when no other matching line lies
\* in L-b-a..L-1, and the after-context is L+1..L+a when none lies in L+1..L+a.
C8_ContextSymmetryIsolated ==
    (scanPc = "done" /\ params.mode = "content")
    => \A i \in 1..Len(searcher.sink.matches) :
         LET r == searcher.sink.matches[i]
             L == r.line_number
             b == params.context_before
             a == params.context_after
         IN /\ (L - b >= 1 /\ ~HasMatchIn(content, L - b - a, L - 1))
                => r.context_before = Range(L - b, L - 1)
            /\ (L + a <= Len(content) /\ ~HasMatchIn(content, L + 1, L + a))
                => r.context_after = Range(L + 1, L + a)

\* a finished scan returned a record with full two-sided context although the
\* content holds another match and an offset skipped one
C8_Witness ==
    /\ scanPc = "done" /\ params.mode = "content"
    /\ params.context_before >= 1 /\ params.context_after >= 1
    /\ Len(RawMatches(content)) >= 2
    /\ \E i \in 1..Len(searcher.sink.matches) :
         LET r == searcher.sink.matches[i]
             L == r.line_number
         IN /\ L - params.context_before >= 1
            /\ L + params.context_after <= Len(content)
            /\ ~HasMatchIn(content,
                    L - params.context_before - params.context_after, L - 1)
            /\ ~HasMatchIn(content, L + 1, L + params.context_after)
            /\ r.context_before = Range(L - params.context_before, L - 1)
            /\ r.context_after = Range(L + 1, L + params.context_after)

\* C11: the match count a finished scan reports equals N, the number of raw
\* matches of the content, for every offset and every maxCount.
C11_MatchCountIsTotal ==
    scanPc = "done" => searcher.sink.match_count = Len(RawMatches(content))

\* what the scan reports instead: it stops at the first match that arrives
\* after the limit was reached, so it counts at most one match past the last
\* skipped or collected one (and at least one collected with maxCount = 0)
MatchCountStopsAfterLimit ==
    scanPc = "done"
    => searcher.sink.match_count =
         IF params.max_count = None THEN Len(RawMatches(content))
         ELSE Min(Len(RawMatches(content)),
                  params.offset + Max(params.max_count, 1) + 1)

\* the non-matching lines that follow line L, up to a lines and up to the
\* next matching line
AfterLines(lines, L, a) ==
    LET last == CHOOSE e \in L..Min(L + a, Len(lines)) :
                    /\ ~HasMatchIn(lines, L + 1, e)
                    /\ e = Min(L + a, Len(lines)) \/ lines[e + 1]
    IN Range(L + 1, last)

\* C36: the record that reaches maxCount = m >= 1 still receives its
\* after-context, the lines it would receive without a limit (the
\* non-matching lines that follow it, up to contextAfter lines and up to the
\* next match), and once limit_reached is set no further record is collected.
C36_AfterContextAtLimit ==
    /\ [](( /\ scanPc = "done" /\ params.mode = "content"
            /\ params.max_count # None /\ params.max_count >= 1
            /\ Len(searcher.sink.matches) = params.max_count )
          => LET r == searcher.sink.matches[params.max_count]
             IN r.context_after
                    = AfterLines(content, r.line_number, params.context_after))
    /\ [][searcher.sink.limit_reached
            => Len(searcher'.sink.matches) = Len(searcher.sink.matches)]_vars

\* a scan stopped by its limit at a later match, after the record that
\* reached the limit had received all of its after-context
C36_Witness ==
    /\ scanPc = "done" /\ params.mode = "content"
    /\ params.max_count # None /\ params.max_count >= 1
    /\ Len(searcher.sink.matches) = params.max_count
    /\ searcher.stopped
    /\ params.context_after = MaxCtx
    /\ Len(searcher.sink.matches[params.max_count].context_after) = MaxCtx

\* the line of the last match skipped by the offset (0 when none is skipped)
LastSkipped ==
    LET raw == RawMatches(content)
        k   == Min(params.offset, Len(raw))
    IN IF k = 0 THEN 0 ELSE raw[k]

\* the lines handed to the sink as after-context of the last skipped match
AfterLastSkipped ==
    IF LastSkipped = 0 THEN <<>>
    ELSE AfterLines(content, LastSkipped, params.context_after)

ContextLinesOf(r) ==
    { r.context_before[j] : j \in 1..Len(r.context_before) }
    \cup { r.context_after[j] : j \in 1..Len(r.context_after) }

\* C37: the matches skipped by the offset are counted in match_count and
\* give no record; every context line of a returned record follows the last
\* skipped match, and the after-context lines of the skipped matches are in
\* no record.
C37_SkippedMatchesLeaveNoContext ==
    (scanPc = "done" /\ params.mode = "content")
    => /\ searcher.sink.skipped = Min(params.offset, Len(RawMatches(content)))
       /\ searcher.sink.match_count
            >= searcher.sink.skipped + Len(searcher.sink.matches)
       /\ \A i \in 1..Len(searcher.sink.matches) :
            LET r == searcher.sink.matches[i] IN
            /\ r.line_number > LastSkipped
            /\ \A l \in ContextLinesOf(r) :
                 /\ l > LastSkipped
                 /\ \A j \in 1..Len(AfterLastSkipped) : l # AfterLastSkipped[j]

\* a scan that skipped a match with lines before and after it, and then
\* returned a record with a before-context
C37_Witness ==
    /\ scanPc = "done" /\ params.mode = "content"
    /\ params.offset >= 1 /\ LastSkipped >= 2
    /\ Len(AfterLastSkipped) >= 1
    /\ Len(searcher.sink.matches) >= 1
    /\ Len(searcher.sink.matches[1].context_before) >= 1


\* ------------------------------------------------ scoring two entries
TextsUpTo(chars, n) == UNION { [1..k -> chars] : k \in 1..n }

\* a walker's relative path: no empty segment, no "." or ".." segment
IsRelativePath(t) ==
    /\ t[1] # "/" /\ t[Len(t)] # "/"
    /\ \A i \in 1..(Len(t) - 1) : ~(t[i] = "/" /\ t[i + 1] = "/")
    /\ \A i \in 1..Len(t) :
         t[i] = "." =>
            \/ (i > 1 /\ t[i - 1] \notin {"/", "."})
            \/ (i < Len(t) /\ t[i + 1] \notin {"/", "."})
            \/ (i > 1 /\ i < Len(t) /\ t[i - 1] = "." /\ t[i + 1] = ".")

\* the two paths the scoring example names: "abc" and "axbc"
ExamplePaths == { <<"a", "b", "c">>, <<"a", "x", "b", "c">> }

\* a name in which every second character is an "a": "axaxa...xa", 10 times "a"
SpreadName == [i \in 1..19 |-> IF i % 2 = 1 THEN "a" ELSE "x"]

\* a name of 10 times "a" with a single gap: "aaaaaaaaaxa"
BunchedName == [i \in 1..11 |-> IF i = 10 THEN "x" ELSE "a"]

EntryPaths == { t \in TextsUpTo(PathChars, MaxPathLen) : IsRelativePath(t) }
                \cup ExamplePaths \cup {SpreadName, BunchedName}

\* queries that match SpreadName with 8 and with 9 gaps, and a query with a
\* separator in it
ExampleQueries == { [i \in 1..9 |-> "a"], [i \in 1..10 |-> "a"], <<"a", ".", "b">> }

Queries == TextsUpTo(QueryChars, MaxQueryLen) \cup ExampleQueries

\* one entry of the loop of fuzzy_find_sync: the path is built and scored
ScoreEntry(entryPath, is_directory) ==
    [ path         |-> ScoredPath(entryPath, is_directory),
      is_directory |-> is_directory,
      score        |-> ScoreFuzzyPath(ScoredPath(entryPath, is_directory),
                                      is_directory, fzQuery,
                                      NormalizeFuzzyText(fzQuery)) ]

InitFuzzyPair ==
    /\ fzQuery \in Queries
    /\ fzA = NotScored /\ fzB = NotScored
    /\ ScanIdle /\ TypeIdle /\ TreeIdle /\ PsIdle /\ GetsIdle /\ ParIdle /\ SeqIdle /\ LineIdle

ScoreFirst ==
    /\ fzA = NotScored
    /\ \E t \in EntryPaths, d \in BOOLEAN : fzA' = ScoreEntry(t, d)
    /\ UNCHANGED <<fzQuery, fzB>>
    /\ UNCHANGED <<scanVars, typeVars, treeVars, psVars, getVars, parVars, seqVars, lineVars>>

ScoreSecond ==
    /\ fzA # NotScored /\ fzB = NotScored
    /\ \E t \in EntryPaths, d \in BOOLEAN : fzB' = ScoreEntry(t, d)
    /\ UNCHANGED <<fzQuery, fzA>>
    /\ UNCHANGED <<scanVars, typeVars, treeVars, psVars, getVars, parVars, seqVars, lineVars>>

NextFuzzyPair == ScoreFirst \/ ScoreSecond

SpecFuzzyPair == InitFuzzyPair /\ [][NextFuzzyPair]_vars

\* ------------------------------------------------ claims on the scorer
\* the name of a scored path equals the query case-insensitively
NameEqualsQuery(e) ==
    ToLowercase(FileNameOf(TrimEndSlashes(e.path))) = fzQuery

\* the query is a substring of the name or of the full path, not the whole name
OnlyContainsQuery(e) ==
    /\ ~NameEqualsQuery(e)
    /\ ContainsText(ToLowercase(e.path), fzQuery)

RECURSIVE IsSubsequence(_, _)
IsSubsequence(q, t) ==
    IF Len(q) = 0 THEN TRUE
    ELSE IF Len(t) = 0 THEN FALSE
    ELSE IF q[1] = t[1] THEN IsSubsequence(Tail(q), Tail(t))
    ELSE IsSubsequence(q, Tail(t))

\* the path matches the query only as a normalized subsequence
OnlySubsequence(e) ==
    /\ ~ContainsText(ToLowercase(e.path), fzQuery)
    /\ IsSubsequence(NormalizeFuzzyText(fzQuery), NormalizeFuzzyText(e.path))

\* C9: for one query, a path whose name equals the query scores strictly
\* higher than one that only contains it, which scores strictly higher than
\* one that matches only as a normalized subsequence.
C9_ExactOverSubstringOverSubsequence ==
    (fzA # NotScored /\ fzB # NotScored)
    => /\ (NameEqualsQuery(fzA) /\ OnlyContainsQuery(fzB)) => fzA.score > fzB.score
       /\ (OnlyContainsQuery(fzA) /\ OnlySubsequence(fzB)) => fzA.score > fzB.score
       /\ (NameEqualsQuery(fzA) /\ OnlySubsequence(fzB)) => fzA.score > fzB.score

\* the first tier alone: exact name equality outranks substring containment
ExactOverSubstring ==
    (fzA # NotScored /\ fzB # NotScored
        /\ NameEqualsQuery(fzA) /\ OnlyContainsQuery(fzB))
    => fzA.score > fzB.score

\* the example of the scoring property: score("ab", "abc") > score("ab", "axbc")
FewerGapsExample ==
    (fzQuery = <<"a", "b">> /\ ~fzA.is_directory /\ ~fzB.is_directory
        /\ fzA.path = <<"a", "b", "c">> /\ fzB.path = <<"a", "x", "b", "c">>)
    => fzA.score > fzB.score

RECURSIVE GreedyPositions(_, _, _)
\* the leftmost greedy match of q in t from position `from` on: each
\* character of q at the first position after the previous one where it occurs
GreedyPositions(q, t, from) ==
    IF Len(q) = 0 THEN <<>>
    ELSE LET at == CHOOSE i \in from..Len(t) :
                     t[i] = q[1] /\ \A j \in from..(i - 1) : t[j] # q[1]
         IN <<at>> \o GreedyPositions(Tail(q), t, at + 1)

\* the number of non-adjacent jumps of the leftmost greedy match of q in t
Jumps(q, t) ==
    LET at == GreedyPositions(q, t, 1)
    IN Cardinality({ i \in 2..Len(at) : at[i] > at[i - 1] + 1 })

\* the query is no substring of the lowercased name or path of the entry
NoSubstring(e) ==
    /\ ~ContainsText(ToLowercase(e.path), fzQuery)
    /\ ~ContainsText(ToLowercase(FileNameOf(TrimEndSlashes(e.path))), fzQuery)

NormalizedName(e) == NormalizeFuzzyText(FileNameOf(TrimEndSlashes(e.path)))

\* "name", "path" or "none": what the normalized query is a subsequence of
SubsequenceTarget(e) ==
    IF IsSubsequence(NormalizeFuzzyText(fzQuery), NormalizedName(e)) THEN "name"
    ELSE IF IsSubsequence(NormalizeFuzzyText(fzQuery), NormalizeFuzzyText(e.path))
    THEN "path"
    ELSE "none"

JumpsOf(e) ==
    CASE SubsequenceTarget(e) = "name"
            -> Jumps(NormalizeFuzzyText(fzQuery), NormalizedName(e))
      [] SubsequenceTarget(e) = "path"
            -> Jumps(NormalizeFuzzyText(fzQuery), NormalizeFuzzyText(e.path))
      [] OTHER -> 0

\* the score claimed for an entry the query is no substring of
SubsequenceScore(e) ==
    LET base == CASE SubsequenceTarget(e) = "name" -> Max(1, 40 - 5 * JumpsOf(e)) + 50
                  [] SubsequenceTarget(e) = "path" -> Max(1, 40 - 5 * JumpsOf(e)) + 30
                  [] OTHER -> 0
    IN IF e.is_directory /\ base > 0 THEN base + 10 ELSE base

\* C39: when the query is no substring of the lowercased name or path, the
\* score is max(1, 40 - 5g) + 50 for a subsequence of the normalized name, else
\* max(1, 40 - 5g) + 30 for a subsequence of the normalized path, else 0, plus
\* 10 for a directory with a non-zero score, g being the number of
\* non-adjacent jumps of the leftmost greedy match; of two entries of one
\* kind matched against the same kind of target, the one with fewer jumps
\* never scores lower.
C39_SubsequenceScore ==
    /\ (fzA # NotScored /\ NoSubstring(fzA)) => fzA.score = SubsequenceScore(fzA)
    /\ (fzA # NotScored /\ fzB # NotScored /\ NoSubstring(fzA) /\ NoSubstring(fzB)
            /\ fzA.is_directory = fzB.is_directory
            /\ SubsequenceTarget(fzA) # "none"
            /\ SubsequenceTarget(fzA) = SubsequenceTarget(fzB)
            /\ JumpsOf(fzA) <= JumpsOf(fzB))
        => fzA.score >= fzB.score

\* two files matched against their names, one with 9 jumps scored at the
\* floor and one with a single jump
C39_Witness ==
    /\ fzA # NotScored /\ fzB # NotScored
    /\ NoSubstring(fzA) /\ NoSubstring(fzB)
    /\ ~fzA.is_directory /\ ~fzB.is_directory
    /\ SubsequenceTarget(fzA) = "name" /\ SubsequenceTarget(fzB) = "name"
    /\ JumpsOf(fzA) = 1 /\ fzA.score = 85
    /\ JumpsOf(fzB) = 9 /\ fzB.score = 51

\* ------------------------------------------------ filtering one candidate
TypeChars == {"c", "s", "h", "C", ".", " "}
NameChars == {"c", "s", "h", "C", "."}

TypeNames == {<<>>} \cup TextsUpTo(TypeChars, MaxTypeLen)

\* file names: "." and ".." are no file names
FileNames == { t \in TextsUpTo(NameChars, MaxNameLen) :
                 t \notin {<<".">>, <<".", ".">>} }

InitType ==
    /\ tfType \in TypeNames
    /\ tfName \in FileNames
    /\ tfPass = "unset"
    /\ ScanIdle /\ FuzzyIdle /\ TreeIdle /\ PsIdle /\ GetsIdle /\ ParIdle /\ SeqIdle /\ LineIdle

\* collect_files tests a candidate against the type option
ApplyTypeFilter ==
    /\ tfPass = "unset"
    /\ tfPass' = IF ResolveTypeFilter(tfType).kind = "NoFilter" THEN "none"
                 ELSE IF MatchesTypeFilter(tfName, ResolveTypeFilter(tfType))
                 THEN "pass" ELSE "reject"
    /\ UNCHANGED <<tfType, tfName>>
    /\ UNCHANGED <<scanVars, fuzzyVars, treeVars, psVars, getVars, parVars, seqVars, lineVars>>

NextType == ApplyTypeFilter

SpecType == InitType /\ [][NextType]_vars

\* C10: with a `type` that names no known family, a candidate passes exactly
\* when its extension or its file name equals the type (trimmed, without
\* leading dots, non-empty) case-insensitively.
C10_CustomTypeMatchesExtensionOrName ==
    LET filter == ResolveTypeFilter(tfType)
        ext    == ExtensionOf(tfName)
    IN (tfPass \in {"pass", "reject"} /\ filter.kind = "Custom"
            /\ Len(filter.value) > 0)
       => ((tfPass = "pass") <=>
            (\/ (Len(ext) > 0 /\ EqIgnoreAsciiCase(ext, filter.value))
             \/ EqIgnoreAsciiCase(tfName, filter.value)))

\* with a known family the extension is compared with the family's extensions
KnownTypeMatchesFamily ==
    LET filter == ResolveTypeFilter(tfType)
    IN (tfPass \in {"pass", "reject"} /\ filter.kind = "Known")
       => ((tfPass = "pass") <=>
            (\/ \E e \in filter.exts : ToLowercase(ExtensionOf(tfName)) = e
             \/ \E n \in filter.names : ToLowercase(tfName) = n))

\* ------------------------------------------------ calls on a directory tree
PatternTs == <<"*", ".", "t", "s">>
PatternNm == <<"*", "*", "/">> \o NodeModules \o <<"/", "*">>
PatternBad == <<"[">>
RegexFoo == <<"f", "o", "o">>
RegexBad == <<"(">>
QueryTs == <<"t", "s">>

PathOfFile == Root \o Slash \o NameB
PathMissing == Root \o Slash \o <<"z">>

\* cacheTtlMs as given to glob
Ttls == {0, 2}

\* the glob calls of the model: every combination of the discovery options on
\* the root, the calls under a tripped token, and the calls on bad input
GlobCalls ==
    LET opts(pat, path, hid, gi, inm, max, ttl) ==
            [ pattern |-> pat, path |-> path, hidden |-> hid,
              gitignore |-> gi, include_node_modules |-> inm,
              file_type |-> "Any", max_results |-> max,
              sort_by_mtime |-> FALSE, cache_ttl_ms |-> ttl ]
    IN  { [options |-> opts(pat, Root, hid, gi, inm, None, ttl),
           cancel_at |-> None] :
            pat \in {PatternTs, PatternNm}, hid \in BOOLEAN, gi \in BOOLEAN,
            inm \in {"unset", "true", "false"}, ttl \in Ttls }
        \cup
        { [options |-> opts(PatternTs, Root, FALSE, TRUE, "unset", max, ttl),
           cancel_at |-> 0] : max \in {None, 0, 1}, ttl \in Ttls }
        \cup
        { [options |-> opts(PatternTs, Root, FALSE, TRUE, "unset", max, 0),
           cancel_at |-> None] : max \in {0, 1} }
        \cup
        { [options |-> opts(x[1], x[2], FALSE, TRUE, "unset", max, ttl),
           cancel_at |-> None] :
            x \in {<<PatternBad, Root>>, <<PatternTs, PathOfFile>>,
                   <<PatternTs, PathMissing>>},
            max \in {None, 0}, ttl \in Ttls }

\* the fuzzyFind calls of the model
FuzzyCalls ==
    LET opts(path, hid, gi, max, ttl) ==
            [ query |-> QueryTs, path |-> path, hidden |-> hid,
              gitignore |-> gi, max_results |-> max, cache_ttl_ms |-> ttl ]
    IN  { [options |-> opts(Root, hid, gi, None, ttl), cancel_at |-> None] :
            hid \in BOOLEAN, gi \in BOOLEAN, ttl \in {None, 0} }
        \cup
        { [options |-> opts(Root, FALSE, TRUE, max, ttl), cancel_at |-> 0] :
            max \in {None, 0}, ttl \in {None, 0} }
        \cup
        { [options |-> opts(path, FALSE, TRUE, max, None), cancel_at |-> None] :
            path \in {PathOfFile, PathMissing}, max \in {None, 0} }

\* the grep calls of the model
GrepCalls ==
    LET opts(pat, path, glob, hid, mode, max, off) ==
            [ pattern |-> pat, path |-> path, glob |-> glob,
              type_filter |-> <<>>, hidden |-> hid, mode |-> mode,
              max_count |-> max, offset |-> off,
              context_before |-> 0, context_after |-> 0 ]
    IN  { [options |-> opts(RegexFoo, path, glob, hid, "content", None, 0),
           cancel_at |-> None] :
            path \in {Root, PathOfFile}, glob \in {<<>>, PatternTs, PatternNm},
            hid \in {"unset", "false"} }
        \cup
        { [options |-> opts(RegexFoo, Root, <<>>, "unset", mode, max, 0),
           cancel_at |-> None] :
            mode \in {"content", "count"}, max \in {None, 1} }
        \cup
        { [options |-> opts(RegexFoo, path, <<>>, "unset", "content", None, 0),
           cancel_at |-> 0] : path \in {Root, PathOfFile} }
        \cup
        { [options |-> opts(x[1], x[2], x[3], "unset", "content", None, 0),
           cancel_at |-> None] :
            x \in {<<RegexBad, Root, <<>>>>, <<RegexFoo, Root, PatternBad>>,
                   <<RegexBad, PathOfFile, <<>>>>,
                   <<RegexFoo, PathOfFile, PatternBad>>,
                   <<RegexFoo, PathMissing, <<>>>>} }

\* the tree of the end-to-end example, with a repository directory, and
\* with or without an ignore file
InitTree ==
    /\ fs \in { {NameA, NameB, PathC, PathGitFile},
                {NameA, NameB, PathC, PathGitFile, NameIgnore} }
    /\ cache = EmptyCache
    /\ now = 0
    /\ call = NoCall
    /\ ncalls = 0
    /\ ScanIdle /\ FuzzyIdle /\ TypeIdle /\ PsIdle /\ GetsIdle /\ ParIdle /\ SeqIdle /\ LineIdle

\* the record of a call: its input, the state it ran in, what it did
Called(op, k, r, c2) ==
    [ op |-> op, options |-> k.options, cancel_at |-> k.cancel_at,
      path_kind |-> PathKind(k.options.path, fs), files |-> fs,
      cache_changed |-> c2 # cache,
      result |-> [r EXCEPT !.cache = c2] ]

\* the call returns r: the cache is as the call left it, and the call is
\* on record
Returns(op, k, r) ==
    \E c2 \in Evicted(r.cache, r.inserted) :
        /\ cache' = c2
        /\ call' = Called(op, k, r, c2)

\* glob(options, onMatch) under task::blocking
CallGlob ==
    /\ ncalls < MaxCalls
    /\ \E k \in GlobCalls :
         Returns("glob", k, Glob(k.options, cache, now, fs, k.cancel_at))
    /\ ncalls' = ncalls + 1
    /\ UNCHANGED <<fs, now, scanVars, fuzzyVars, typeVars, psVars, getVars, parVars, seqVars, lineVars>>

\* fuzzyFind(options) under task::blocking
CallFuzzyFind ==
    /\ ncalls < MaxCalls
    /\ \E k \in FuzzyCalls :
         Returns("fuzzyFind", k,
                 FuzzyFindSync(k.options, cache, now, fs, k.cancel_at))
    /\ ncalls' = ncalls + 1
    /\ UNCHANGED <<fs, now, scanVars, fuzzyVars, typeVars, psVars, getVars, parVars, seqVars, lineVars>>

\* grep(options, onMatch) under task::blocking
CallGrep ==
    /\ ncalls < MaxCalls
    /\ \E k \in GrepCalls :
         call' = Called("grep", k, GrepSync(k.options, cache, fs, k.cancel_at),
                        cache)
    /\ ncalls' = ncalls + 1
    /\ UNCHANGED <<fs, cache, now, scanVars, fuzzyVars, typeVars, psVars, getVars, parVars, seqVars, lineVars>>

\* a millisecond passes
Tick ==
    /\ now < MaxTime
    /\ now' = now + 1
    /\ UNCHANGED <<fs, cache, call, ncalls, scanVars, fuzzyVars, typeVars, psVars, getVars, parVars, seqVars, lineVars>>

\* somebody creates or deletes b.ts
Mutate ==
    /\ fs' = IF NameB \in fs THEN fs \ {NameB} ELSE fs \cup {NameB}
    /\ UNCHANGED <<cache, now, call, ncalls, scanVars, fuzzyVars, typeVars, psVars, getVars, parVars, seqVars, lineVars>>

NextTree == CallGlob \/ CallFuzzyFind \/ CallGrep \/ Tick \/ Mutate

SpecTree == InitTree /\ [][NextTree]_vars


\* ------------------------------------------------ claims on the tree calls
\* the last call was op and returned normally
Returned(op) == call.op = op /\ call.result.outcome = "ok"

\* the paths of a sequence of entries or matches
PathsOf(seq) == { seq[i].path : i \in 1..Len(seq) }

HasSegment(paths, segment) == \E q \in paths : ContainsComponent(q, segment)

\* C2: a directory grep whose pattern and glob do not mention node_modules
\* neither opens nor returns a file below a node_modules directory.
C2_GrepSkipsNodeModules ==
    ( /\ Returned("grep")
      /\ call.path_kind = "dir"
      /\ ~ContainsText(call.options.pattern, NodeModules)
      /\ ~ContainsText(call.options.glob, NodeModules) )
    => /\ ~HasSegment({ call.result.opened[i] :
                          i \in 1..Len(call.result.opened) }, NodeModules)
       /\ ~HasSegment(PathsOf(call.result.matches), NodeModules)

\* the node_modules entries among those a glob call worked on
NodeModulesEntries ==
    { e \in { call.result.entries[i] : i \in 1..Len(call.result.entries) } :
        ContainsComponent(e.path, NodeModules) }

\* C3: glob keeps an entry below node_modules, and matches it against the
\* pattern, exactly when includeNodeModules is true or the pattern mentions
\* node_modules; otherwise the entry is excluded.
C3_NodeModulesKeptIffRequested ==
    ( Returned("glob") /\ call.options.max_results = None )
    => \A e \in NodeModulesEntries :
          LET wanted == \/ call.options.include_node_modules = "true"
                        \/ ContainsText(call.options.pattern, NodeModules)
          IN (e \in { call.result.matches[i] :
                        i \in 1..Len(call.result.matches) })
             <=> ( wanted /\ GlobMatches(BuildGlobPattern(call.options.pattern),
                                         e.path) )

\* C4: no entry with a .git segment is returned by glob, fuzzyFind or a
\* directory grep, handed to onMatch, or stored in the discovery cache.
C4_GitNeverReturnedOrCached ==
    /\ (call.op \in {"glob", "fuzzyFind"} \/ call.path_kind = "dir")
         => /\ ~HasSegment(PathsOf(call.result.matches), DotGit)
            /\ ~HasSegment(PathsOf(call.result.notified), DotGit)
            /\ ~HasSegment(PathsOf(call.result.entries), DotGit)
    /\ \A k \in CacheKeys : ~HasSegment(PathsOf(cache[k].entries), DotGit)

\* a glob with hidden entries included walked a tree that holds .git/h.ts,
\* stored what it found and returned matches
C4_Witness ==
    /\ Returned("glob")
    /\ call.options.hidden
    /\ call.options.cache_ttl_ms > 0
    /\ call.result.walked
    /\ PathGitFile \in PathsOf(WalkerYields(call.files, TRUE,
                                            call.options.gitignore))
    /\ Len(call.result.matches) > 0

\* the cache key of the last glob or fuzzyFind call
CallKey(k) ==
    [root |-> k.options.path, include_hidden |-> k.options.hidden,
     use_gitignore |-> k.options.gitignore]

\* a glob call on a directory, with a pattern that compiles, a token that
\* is never tripped and a cache to consult, has just been made
CachedGlobCalled ==
    /\ ncalls' = ncalls + 1
    /\ call'.op = "glob"
    /\ call'.cancel_at = None
    /\ call'.result.outcome # "invalid"
    /\ call'.options.cache_ttl_ms > 0
    /\ call'.options.max_results # 0

\* C5: with cacheTtlMs > 0, a glob issued before the stored entry's
\* expiresAt gets the stored entries without a walk, the same the previous
\* call on that key got, whatever happened to the tree since; a glob issued
\* at or after expiresAt (or with nothing stored) walks and returns with
\* the entries of the tree as it is now.
C5_CacheServesUntilExpiry ==
    [][ CachedGlobCalled =>
          /\ call'.result.outcome = "ok"
          /\ IF /\ cache[CallKey(call')] # NoEntry
                /\ now < cache[CallKey(call')].expires_at
             THEN /\ call'.result.entries = cache[CallKey(call')].entries
                  /\ ~call'.result.walked
                  /\ ( /\ Returned("glob")
                       /\ call.options.cache_ttl_ms > 0
                       /\ call.options.max_results # 0
                       /\ CallKey(call) = CallKey(call') )
                     => call'.result.entries = call.result.entries
             ELSE /\ call'.result.walked
                  /\ call'.result.entries =
                       CollectEntries(fs, call'.options.hidden,
                                      call'.options.gitignore, None, 0).entries
      ]_vars

\* the part of C5 the code keeps: an entry that has not expired is served
\* as stored, without a walk, and nothing stored means a walk of the tree
C5_LiveEntryServed ==
    [][ ( CachedGlobCalled
          /\ ( cache[CallKey(call')] = NoEntry
               \/ now < cache[CallKey(call')].expires_at ) )
        => /\ call'.result.outcome = "ok"
           /\ IF cache[CallKey(call')] # NoEntry
              THEN /\ call'.result.entries = cache[CallKey(call')].entries
                   /\ ~call'.result.walked
              ELSE /\ call'.result.walked
                   /\ call'.result.entries =
                        CollectEntries(fs, call'.options.hidden,
                                       call'.options.gitignore, None, 0).entries
      ]_vars

\* a glob was served from the cache although the tree had changed: what it
\* got is not what a walk would have found
StaleHit ==
    /\ Returned("glob")
    /\ call.options.cache_ttl_ms > 0
    /\ call.result.cache_read
    /\ ~call.result.walked
    /\ call.result.entries #
         CollectEntries(call.files, call.options.hidden,
                        call.options.gitignore, None, 0).entries

\* C6: a call that begins with its token tripped fails with the
\* cancellation error, fires no onMatch and leaves the cache as it was
\* (stated for calls whose path and patterns are valid).
C6_TrippedTokenFailsWithoutEffects ==
    ( /\ call.op # "none"
      /\ call.cancel_at = 0
      /\ call.result.outcome # "invalid" )
    => /\ call.result.outcome = "cancelled"
       /\ call.result.notified = <<>>
       /\ ~call.cache_changed

\* the input of the last call is bad: the glob or regex does not compile,
\* the path is missing, or it is not a directory where one is needed
BadInput ==
    CASE call.op = "glob" ->
           \/ call.path_kind # "dir"
           \/ ~GlobCompiles(BuildGlobPattern(call.options.pattern))
      [] call.op = "fuzzyFind" -> call.path_kind # "dir"
      [] call.op = "grep" ->
           \/ call.path_kind = "missing"
           \/ ~RegexCompiles(call.options.pattern)
           \/ ~GrepGlobCompiles(call.options.glob)
      [] OTHER -> FALSE

\* C7: a call on bad input fails, and does so before any walk, file open,
\* cache read or write, or onMatch callback, also when maxResults is 0.
C7_InvalidInputFailsBeforeAnyWork ==
    BadInput
    => /\ call.result.outcome = "invalid"
       /\ ~call.result.walked
       /\ call.result.opened = <<>>
       /\ ~call.result.cache_read
       /\ ~call.result.cache_write
       /\ ~call.cache_changed
       /\ call.result.notified = <<>>
       /\ call.result.matches = <<>>

\* a glob with a pattern that does not compile, a cache to consult and a
\* tree it could have walked, has failed
C7_Witness ==
    /\ call.op = "glob"
    /\ call.options.pattern = PatternBad
    /\ call.options.cache_ttl_ms > 0
    /\ call.path_kind = "dir"
    /\ call.result.outcome = "invalid"

\* ------------------------------------------------ grep with offset and limit
\* the files a tree of searchable sources may hold
SourceFiles == {NameA, NameB, NameD, NameE, NameP, NameQ}

\* the searches of the model: both modes, every limit and offset, with and
\* without one line of context around a match
SearchOptions ==
    { [ pattern |-> RegexFoo, path |-> Root, glob |-> <<>>,
        type_filter |-> <<>>, hidden |-> "unset", mode |-> mode,
        max_count |-> max, offset |-> off,
        context_before |-> ctx, context_after |-> ctx ] :
        mode \in {"content", "count"}, max \in {None} \cup (0..MaxCount),
        off \in 0..MaxOffset, ctx \in {0, 1} }

\* any tree of source files, nothing cached
InitGrep ==
    /\ fs \in SUBSET SourceFiles
    /\ cache = EmptyCache
    /\ now = 0
    /\ call = NoCall
    /\ ncalls = 0
    /\ ScanIdle /\ FuzzyIdle /\ TypeIdle /\ PsIdle /\ GetsIdle /\ ParIdle /\ SeqIdle /\ LineIdle

\* grep(options, onMatch) on the root directory, with a listener attached.
\* grep keeps nothing between calls, so a behaviour makes one call.
GrepDirectory ==
    /\ call = NoCall
    /\ \E o \in SearchOptions :
         LET k == [options |-> o, cancel_at |-> None]
         IN call' = Called("grep", k, GrepSync(o, cache, fs, None), cache)
    /\ ncalls' = ncalls + 1
    /\ UNCHANGED <<fs, cache, now, scanVars, fuzzyVars, typeVars, psVars, getVars, parVars, seqVars, lineVars>>

\* grep(options, onMatch) on one file of the tree, with a listener attached
GrepSingleFile ==
    /\ call = NoCall
    /\ \E o \in SearchOptions, f \in fs :
         LET k == [options |-> [o EXCEPT !.path = Root \o Slash \o f],
                   cancel_at |-> None]
         IN call' = Called("grep", k, GrepSync(k.options, cache, fs, None),
                           cache)
    /\ ncalls' = ncalls + 1
    /\ UNCHANGED <<fs, cache, now, scanVars, fuzzyVars, typeVars, psVars, getVars, parVars, seqVars, lineVars>>

\* grep on the root directory under a token that is tripped before the
\* call begins (0) or after its first heartbeat (1)
GrepTripped ==
    /\ call = NoCall
    /\ \E o \in SearchOptions, tripped_after \in {0, 1} :
         LET k == [options |-> o, cancel_at |-> tripped_after]
         IN call' = Called("grep", k, GrepSync(o, cache, fs, tripped_after),
                           cache)
    /\ ncalls' = ncalls + 1
    /\ UNCHANGED <<fs, cache, now, scanVars, fuzzyVars, typeVars, psVars, getVars, parVars, seqVars, lineVars>>

NextGrep == GrepDirectory \/ GrepSingleFile \/ GrepTripped

SpecGrep == InitGrep /\ [][NextGrep]_vars

\* ------------------------------------------------ claims on grep results
\* the files of the call's tree that it opened and read to the end of the scan
SearchedFiles ==
    LET Read(f) == ~ReadFails(f)
    IN SelectSeq(call.result.opened, Read)

\* the searched files with at least one raw match, in the order searched
MatchingFiles ==
    LET Matching(f) == Len(RawMatches(FileContent(f))) > 0
    IN SelectSeq(SearchedFiles, Matching)

\* C12: in count mode a directory grep returns one record for each searched
\* file with a match (line number 0, no context) whose matchCount is the
\* number of matches of that file, whatever offset and maxCount are, and no
\* other record.
C12_CountModeOneRecordPerMatchingFile ==
    (Returned("grep") /\ call.path_kind = "dir" /\ call.options.mode = "count")
    => /\ Len(call.result.matches) = Len(MatchingFiles)
       /\ { call.result.matches[i] : i \in 1..Len(call.result.matches) }
            = { [ path |-> MatchingFiles[i], line_number |-> 0,
                  context_before |-> <<>>, context_after |-> <<>>,
                  match_count |-> Len(RawMatches(FileContent(MatchingFiles[i]))) ] :
                i \in 1..Len(MatchingFiles) }

\* the same, for calls without maxCount
CountModeWithoutLimit ==
    (Returned("grep") /\ call.path_kind = "dir" /\ call.options.mode = "count"
        /\ call.options.max_count = None)
    => /\ Len(call.result.matches) = Len(MatchingFiles)
       /\ { call.result.matches[i] : i \in 1..Len(call.result.matches) }
            = { [ path |-> MatchingFiles[i], line_number |-> 0,
                  context_before |-> <<>>, context_after |-> <<>>,
                  match_count |-> Len(RawMatches(FileContent(MatchingFiles[i]))) ] :
                i \in 1..Len(MatchingFiles) }

\* C13: the onMatch listener of a grep is invoked once for each returned
\* record, in the order of the returned list, on a directory and on a file.
C13_ListenerGetsEveryRecord ==
    Returned("grep") => call.result.notified = call.result.matches

\* the same, for directory searches only
DirectoryListenerGetsEveryRecord ==
    (Returned("grep") /\ call.path_kind = "dir")
    => call.result.notified = call.result.matches

\* the files the directory grep collected that do not open or do not read
FailingFiles ==
    { e \in PathsOf(call.result.entries) : OpenFails(e) \/ ReadFails(e) }

\* C14: a directory grep skips a file that does not open or whose scan fails:
\* the call succeeds, no record is of that file, and filesSearched counts
\* only the files that were searched to the end.
C14_FailedFilesSkipped ==
    (call.op = "grep" /\ call.path_kind = "dir" /\ call.cancel_at = None)
    => /\ call.result.outcome = "ok"
       /\ PathsOf(call.result.matches) \cap FailingFiles = {}
       /\ call.result.files_searched = Len(SearchedFiles)

\* the same, for files that do not open only
UnopenedFilesSkipped ==
    (call.op = "grep" /\ call.path_kind = "dir" /\ call.cancel_at = None
        /\ NameQ \notin call.files)
    => /\ call.result.outcome = "ok"
       /\ PathsOf(call.result.matches) \cap FailingFiles = {}
       /\ call.result.files_searched = Len(SearchedFiles)

\* C18: every grep result, under either strategy, in either mode, for any
\* offset and maxCount, and on a single file too, has totalMatches at least
\* the number of returned records.
C18_TotalCoversReturned ==
    Returned("grep") => call.result.total_matches >= Len(call.result.matches)

\* a search whose offset and limit discarded matches: it returned records,
\* and counted more matches than it returned
C18_Witness ==
    /\ Returned("grep")
    /\ call.options.offset > 0 /\ call.options.max_count # None
    /\ Len(call.result.matches) > 0
    /\ call.result.total_matches > Len(call.result.matches)

RECURSIVE RawMatchesOfFiles(_, _)
\* the raw matches of the readable files among paths, from the i-th on, as
\* (file, line) pairs in file order and line order
RawMatchesOfFiles(paths, i) ==
    IF i > Len(paths) THEN <<>>
    ELSE IF OpenFails(paths[i]) \/ ReadFails(paths[i])
    THEN RawMatchesOfFiles(paths, i + 1)
    ELSE LET raw == RawMatches(FileContent(paths[i]))
         IN [j \in 1..Len(raw) |-> [path |-> paths[i], line_number |-> raw[j]]]
            \o RawMatchesOfFiles(paths, i + 1)

\* the files the call collected, in the order collected
PathsOfEntries ==
    [i \in 1..Len(call.result.entries) |-> call.result.entries[i].path]

\* the raw matches of the files the call collected, in path order
GlobalRawMatches == RawMatchesOfFiles(PathsOfEntries, 1)

\* the (file, line) pairs of the returned records
ReturnedPairs ==
    [i \in 1..Len(call.result.matches) |->
        [ path        |-> call.result.matches[i].path,
          line_number |-> call.result.matches[i].line_number ]]

\* C20: a content-mode directory grep with offset k and maxCount m returns
\* exactly the global raw matches k+1 .. min(k+m, N), in (file, line) order.
C20_DirectoryWindow ==
    ( /\ Returned("grep") /\ call.path_kind = "dir"
      /\ call.options.mode = "content" /\ call.options.max_count # None )
    => ReturnedPairs = SubSeq(GlobalRawMatches, call.options.offset + 1,
                              Min(call.options.offset + call.options.max_count,
                                  Len(GlobalRawMatches)))

\* the offset ended inside one file and the limit in a later one: the
\* returned records are of two files
C20_Witness ==
    /\ Returned("grep") /\ call.path_kind = "dir"
    /\ call.options.mode = "content"
    /\ call.options.offset = 2 /\ call.options.max_count = 2
    /\ Len(call.result.matches) = 2
    /\ call.result.matches[1].path # call.result.matches[2].path
    /\ call.result.matches[1].line_number > 1

\* the file of a single-file grep, relative to the root
CallFile == SubSeq(call.options.path, Len(Root) + 2, Len(call.options.path))

\* a record without its path
Unpathed(m) ==
    [ line_number |-> m.line_number, context_before |-> m.context_before,
      context_after |-> m.context_after, match_count |-> m.match_count ]

\* the result of the single-file grep is the one run_sequential_search gives
\* on the list of that file alone
SameAsSequentialOnOne ==
    LET r == RunSequentialSearch(<<CallFile>>, GrepParams(call.options))
    IN /\ call.result.outcome = "ok"
       /\ [i \in 1..Len(call.result.matches) |-> Unpathed(call.result.matches[i])]
            = [i \in 1..Len(r.matches) |-> Unpathed(r.matches[i])]
       /\ call.result.total_matches = r.total_matches
       /\ call.result.files_with_matches = r.files_with_matches
       /\ call.result.files_searched = r.files_searched
       /\ call.result.limit_reached = r.limit_reached

\* C22: a grep on a single file returns the records (line numbers, context),
\* totalMatches, filesWithMatches, filesSearched and limitReached that the
\* sequential strategy returns on the one-element list of that file, for
\* every offset, every maxCount >= 0 and both modes.
C22_SingleFileAsSequential ==
    (call.op = "grep" /\ call.path_kind = "file") => SameAsSequentialOnOne

\* the same, for a limit of at least 1 or none, on a file that reads
SingleFileAsSequentialPositiveLimit ==
    ( /\ call.op = "grep" /\ call.path_kind = "file"
      /\ call.options.max_count # 0
      /\ ~ReadFails(CallFile) )
    => SameAsSequentialOnOne

\* the directory grep took the sequential strategy
SequentialCall ==
    /\ Returned("grep") /\ call.path_kind = "dir"
    /\ Len(call.result.entries) > 0
    /\ (call.options.max_count # None \/ call.options.offset > 0)

\* the number of raw matches in the first j collected files
RawCountUpTo(j) ==
    Len(RawMatchesOfFiles(SubSeq(PathsOfEntries, 1, j), 1))

\* the collected files up to the one in which the offset and the limit are
\* used up: all of them when the matches do not suffice, none for a limit 0
FilesWithinBudget ==
    LET k == call.options.offset
        m == call.options.max_count
        Enough(j) == RawCountUpTo(j) >= k + m
    IN IF m = None THEN Len(PathsOfEntries)
       ELSE IF m = 0 THEN 0
       ELSE IF \E j \in 1..Len(PathsOfEntries) : Enough(j)
       THEN CHOOSE j \in 1..Len(PathsOfEntries) :
                Enough(j) /\ \A i \in 1..(j - 1) : ~Enough(i)
       ELSE Len(PathsOfEntries)

\* the limit is 0, or offset and limit are used up by the matches of the
\* collected files
BudgetUsedUp ==
    /\ call.options.max_count # None
    /\ \/ call.options.max_count = 0
       \/ RawCountUpTo(Len(PathsOfEntries))
            >= call.options.offset + call.options.max_count

\* C23: in the sequential strategy limitReached is set exactly when the
\* collected records reach maxCount; the files opened, and counted in
\* filesSearched, are the ones up to the file in which that happened and no
\* later one, and none at all when the budget is 0 from the start.
C23_SequentialStopsAtLimit ==
    SequentialCall =>
        LET Opens(f) == ~OpenFails(f)
        IN /\ call.result.opened
                = SelectSeq(SubSeq(PathsOfEntries, 1, FilesWithinBudget), Opens)
           /\ call.result.files_searched = Len(call.result.opened)
           /\ call.result.limit_reached = BudgetUsedUp

\* the limit was reached in the first of several files that open: only
\* that one was opened
C23_Witness ==
    /\ SequentialCall
    /\ call.result.limit_reached
    /\ Len(call.result.opened) = 1
    /\ Len(call.result.matches) >= 1
    /\ Cardinality({f \in call.files : ~OpenFails(f)}) >= 3

\* C24: a directory grep polls the token at each file it opens: when the
\* token is tripped after the heartbeat that follows the collection of the
\* files, with files still to open, the call fails with the cancellation
\* error.
C24_TrippedBeforeFilesFails ==
    ( /\ call.op = "grep" /\ call.path_kind = "dir"
      /\ call.cancel_at = 1
      /\ \E f \in call.files : ~OpenFails(f) )
    => call.result.outcome = "cancelled"

\* a token tripped before the heartbeat that follows the collection makes
\* the call fail, without a file opened or a record delivered
TrippedBeforeCollectionFails ==
    (call.op = "grep" /\ call.path_kind = "dir" /\ call.cancel_at = 0)
    => /\ call.result.outcome = "cancelled"
       /\ call.result.opened = <<>>
       /\ call.result.notified = <<>>

\* ------------------------------------------------ ranked discovery
\* the tree always holds a link and a package directory; the other files
\* come and go
RankedFiles == {NameA, NameD, NameE, NameP}

PatternAll == <<"*">>

\* the fuzzyFind calls: an empty, a blank, a separator-only and two plain
\* queries, with every limit under the default TTL, and without the cache
FindCalls ==
    LET opts(q, max, ttl) ==
            [ query |-> q, path |-> Root, hidden |-> FALSE,
              gitignore |-> TRUE, max_results |-> max, cache_ttl_ms |-> ttl ]
        queries == {<<>>, <<" ">>, <<".">>, <<"s">>, <<"e">>}
    IN  { [options |-> opts(q, max, None), cancel_at |-> None] :
            q \in queries, max \in {None} \cup (0..MaxCount) }
        \cup
        { [options |-> opts(q, None, 0), cancel_at |-> None] : q \in queries }

\* the glob calls that sort by mtime, with every limit, with and without
\* the cache
SortedGlobCalls ==
    { [ options |->
          [ pattern |-> pat, path |-> Root, hidden |-> FALSE,
            gitignore |-> TRUE, include_node_modules |-> "true",
            file_type |-> "Any", max_results |-> max,
            sort_by_mtime |-> TRUE, cache_ttl_ms |-> ttl ],
        cancel_at |-> None ] :
        pat \in {PatternTs, PatternAll}, max \in {None} \cup (0..MaxCount),
        ttl \in Ttls }

InitFind ==
    /\ fs \in { {NameL, PathC} \cup some : some \in SUBSET RankedFiles }
    /\ cache = EmptyCache
    /\ now = 0
    /\ call = NoCall
    /\ ncalls = 0
    /\ ScanIdle /\ FuzzyIdle /\ TypeIdle /\ PsIdle /\ GetsIdle /\ ParIdle /\ SeqIdle /\ LineIdle

\* fuzzyFind(options) on the root
FindFuzzy ==
    /\ ncalls < MaxCalls
    /\ \E k \in FindCalls :
         Returns("fuzzyFind", k,
                 FuzzyFindSync(k.options, cache, now, fs, k.cancel_at))
    /\ ncalls' = ncalls + 1
    /\ UNCHANGED <<fs, now, scanVars, fuzzyVars, typeVars, psVars, getVars, parVars, seqVars, lineVars>>

\* glob(options) on the root with sortByMtime
GlobByMtime ==
    /\ ncalls < MaxCalls
    /\ \E k \in SortedGlobCalls :
         Returns("glob", k, Glob(k.options, cache, now, fs, k.cancel_at))
    /\ ncalls' = ncalls + 1
    /\ UNCHANGED <<fs, now, scanVars, fuzzyVars, typeVars, psVars, getVars, parVars, seqVars, lineVars>>

\* the same glob calls in walker order
UnsortedGlobCalls ==
    { [k EXCEPT !.options.sort_by_mtime = FALSE] : k \in SortedGlobCalls }

\* glob(options) on the root without sortByMtime
GlobInWalkerOrder ==
    /\ ncalls < MaxCalls
    /\ \E k \in UnsortedGlobCalls :
         Returns("glob", k, Glob(k.options, cache, now, fs, k.cancel_at))
    /\ ncalls' = ncalls + 1
    /\ UNCHANGED <<fs, now, scanVars, fuzzyVars, typeVars, psVars, getVars, parVars, seqVars, lineVars>>

NextFind == FindFuzzy \/ GlobByMtime \/ GlobInWalkerOrder

SpecFind == InitFind /\ [][NextFind]_vars

\* ------------------------------------------------ claims on ranked discovery
\* the returned paths that are symbolic links of the tree
ReturnedLinks ==
    { e \in { AllEntries[i] : i \in 1..Len(AllEntries) } :
        /\ e.file_type = "Symlink"
        /\ e.path \in PathsOf(call.result.matches) }

\* C15: fuzzyFind with an empty or blank query gives every entry it returns
\* the score 1, directories as well as files, and returns no symbolic link.
C15_EmptyQueryScoresOne ==
    (Returned("fuzzyFind") /\ Len(Trim(call.options.query)) = 0)
    => /\ \A i \in 1..Len(call.result.matches) : call.result.matches[i].score = 1
       /\ ReturnedLinks = {}

\* what holds instead: files get 1, directories 1 + 10, links are left out
EmptyQueryScoresByKind ==
    (Returned("fuzzyFind") /\ Len(Trim(call.options.query)) = 0)
    => /\ \A i \in 1..Len(call.result.matches) :
            call.result.matches[i].score =
                IF call.result.matches[i].is_directory THEN 11 ELSE 1
       /\ ReturnedLinks = {}

\* the entries of the call's tree as fuzzyFind scores them
ScoredCandidates ==
    LET found == CollectEntries(call.files, call.options.hidden,
                                call.options.gitignore, None, 0).entries
        q     == ToLowercase(Trim(call.options.query))
    IN { FuzzyScored(found[i], q, NormalizeFuzzyText(q)) : i \in 1..Len(found) }

\* those with a score other than 0
NonZeroCandidates == { m \in ScoredCandidates : m.score # 0 }

\* the matches are the first limit of the non-zero candidates in the order
\* score descending, path ascending, and total counts all of them
RankedUpTo(limit) ==
    LET ms == call.result.matches
    IN /\ call.result.total_matches = Cardinality(NonZeroCandidates)
       /\ Len(ms) = Min(limit, call.result.total_matches)
       /\ \A i \in 1..Len(ms) : ms[i] \in NonZeroCandidates
       /\ \A i, j \in 1..Len(ms) : i < j => FuzzyBefore(ms[i], ms[j])
       /\ \A x \in NonZeroCandidates :
            x \notin { ms[i] : i \in 1..Len(ms) }
            => \A i \in 1..Len(ms) : FuzzyBefore(ms[i], x)

\* C16: fuzzyFind returns the entries with non-zero score by descending
\* score, ties by ascending path, cut to maxResults; totalMatches counts the
\* non-zero entries before the cut, for every maxResults >= 0.
C16_RankedAndCounted ==
    Returned("fuzzyFind")
    => RankedUpTo(IF call.options.max_results = None THEN 100
                  ELSE call.options.max_results)

\* the same for maxResults >= 1 and a query that is not made of separators only
RankedWithPositiveLimit ==
    ( /\ Returned("fuzzyFind")
      /\ call.options.max_results # 0
      /\ call.options.query # <<".">> )
    => RankedUpTo(IF call.options.max_results = None THEN 100
                  ELSE call.options.max_results)

\* the entries of the call's tree that the glob call's pattern matches
GlobCandidates ==
    LET found   == CollectEntries(call.files, call.options.hidden,
                                  call.options.gitignore, None, 0).entries
        pattern == BuildGlobPattern(Trim(call.options.pattern))
    IN { e \in { found[i] : i \in 1..Len(found) } : GlobMatches(pattern, e.path) }

\* the place of an entry in the walker's order
WalkerIndex(e) == CHOOSE i \in 1..Len(AllEntries) : AllEntries[i] = e

\* a comes before b: it is newer, or as old and earlier in the walk
NewerFirst(a, b) ==
    \/ MtimeOf(a) > MtimeOf(b)
    \/ (MtimeOf(a) = MtimeOf(b) /\ WalkerIndex(a) < WalkerIndex(b))

\* C17: with sortByMtime glob returns, of all the matching entries, the
\* maxResults with the greatest mtime (a missing mtime is 0), newest first,
\* entries of equal mtime in walker order. The sequence is thereby fixed by
\* the tree and the options: a repeated call on an unchanged tree returns it
\* again.
C17_NewestFirstStable ==
    (Returned("glob") /\ call.options.sort_by_mtime)
    => LET ms == call.result.matches
       IN /\ Len(ms) = IF call.options.max_results = None
                       THEN Cardinality(GlobCandidates)
                       ELSE Min(call.options.max_results,
                                Cardinality(GlobCandidates))
          /\ \A i \in 1..Len(ms) : ms[i] \in GlobCandidates
          /\ \A i, j \in 1..Len(ms) : i < j => NewerFirst(ms[i], ms[j])
          /\ \A x \in GlobCandidates :
               x \notin { ms[i] : i \in 1..Len(ms) }
               => \A i \in 1..Len(ms) : NewerFirst(ms[i], x)

\* a sorted glob cut its matches to two entries of the same mtime, served
\* from the cache, and left older matches out
C17_Witness ==
    /\ Returned("glob") /\ call.options.sort_by_mtime
    /\ call.options.max_results = 2
    /\ Len(call.result.matches) = 2
    /\ MtimeOf(call.result.matches[1]) = MtimeOf(call.result.matches[2])
    /\ Cardinality(GlobCandidates) > 2
    /\ call.result.cache_read /\ ~call.result.walked

\* how often an entry occurs in a sequence
Occurrences(seq, e) == Cardinality({ i \in 1..Len(seq) : seq[i] = e })

\* the callbacks fired are the returned matches, each once
NotifiedAreReturned ==
    \A e \in { call.result.notified[i] : i \in 1..Len(call.result.notified) }
            \cup { call.result.matches[i] : i \in 1..Len(call.result.matches) } :
        /\ Occurrences(call.result.notified, e) = 1
        /\ Occurrences(call.result.matches, e) = 1

\* C35: in a successful glob call the entries handed to onMatch are exactly
\* the entries of the returned matches, each notified once, for every
\* maxResults and with and without sortByMtime.
C35_NotifiedAreReturned ==
    Returned("glob") => NotifiedAreReturned

\* the same for the calls that do not sort, and for those that sort and
\* return every matching entry
NotifiedAreReturnedUncut ==
    ( /\ Returned("glob")
      /\ \/ ~call.options.sort_by_mtime
         \/ call.options.max_results = None
         \/ call.options.max_results >= Cardinality(GlobCandidates) )
    => NotifiedAreReturned

\* a glob in walker order stopped at its limit before the last matching entry
NotifiedUnsortedCut ==
    /\ Returned("glob") /\ ~call.options.sort_by_mtime
    /\ call.options.max_results = 1
    /\ Cardinality(GlobCandidates) >= 2
    /\ Len(call.result.notified) = 1

\* ------------------------------------------------ kill_tree on a process tree
Signals == {"SIGKILL", "SIGTERM"}

\* the process tables a call can find: every running process was forked by
\* a running process with a smaller pid or by a process outside the table
ProcessTables ==
    { t \in [Pids -> {UnusedPid} \cup {RunningUnder(q) : q \in 0..MaxPid}] :
        \A p \in Pids :
            t[p].state = "running" /\ t[p].parent # 0
                => t[p].parent < p /\ t[t[p].parent].state = "running" }

InitPs ==
    /\ procs \in ProcessTables
    /\ kt = NoKill
    /\ ScanIdle /\ FuzzyIdle /\ TypeIdle /\ TreeIdle /\ GetsIdle /\ ParIdle /\ SeqIdle /\ LineIdle

\* collect_descendants has returned: the kill loop starts at the last pid
DescendantsCollected(k, stack, pids, parents) ==
    [k EXCEPT !.pc = IF Len(stack) = 0 THEN "kill" ELSE "collect",
              !.frames = stack, !.descendants = pids, !.under = parents,
              !.i = Len(pids)]

\* kill_tree is called: collect_descendants reads the children of pid
KillTree(pid, signal) ==
    /\ kt.pc = "idle"
    /\ kt' = DescendantsCollected([NoKill EXCEPT !.pid = pid, !.signal = signal],
                       Unwind(<<[of |-> pid,
                                 rest |-> ReadChildren(procs, pid)]>>),
                       <<>>, <<>>)
    /\ UNCHANGED <<procs, scanVars, fuzzyVars, typeVars, treeVars, getVars, parVars, seqVars, lineVars>>

\* one turn of the for loop: push the child, then read its children
CollectDescendants ==
    /\ kt.pc = "collect"
    /\ LET top == kt.frames[Len(kt.frames)]
           child_pid == Head(top.rest)
       IN kt' = DescendantsCollected(kt,
                    Unwind([kt.frames EXCEPT ![Len(kt.frames)].rest = Tail(top.rest)]
                           \o <<[of |-> child_pid,
                                 rest |-> ReadChildren(procs, child_pid)]>>),
                    Append(kt.descendants, child_pid),
                    Append(kt.under, top.of))
    /\ UNCHANGED <<procs, scanVars, fuzzyVars, typeVars, treeVars, getVars, parVars, seqVars, lineVars>>

\* the kill loop goes from the end of the list to its start, and ends at pid
KillTargetForward(k) ==
    IF k.i >= 1 THEN k.descendants[Len(k.descendants) - k.i + 1] ELSE k.pid

\* descendants.iter().rev(), then the root
KillTarget(k) ==
    IF k.i >= 1 THEN k.descendants[k.i] ELSE k.pid

\* one kill_pid call of kill_tree; the call returns after the root's
KillNext ==
    /\ kt.pc = "kill"
    /\ LET target == KillTarget(kt)
           success == KillPid(procs, target)
       IN /\ kt' = [kt EXCEPT
                      !.killed = IF success THEN @ + 1 ELSE @,
                      !.signalled = Append(@, [pid |-> target, ok |-> success]),
                      !.i = IF @ >= 1 THEN @ - 1 ELSE @,
                      !.pc = IF kt.i >= 1 THEN "kill" ELSE "done"]
          /\ procs' = Signalled(procs, target, kt.signal)
    /\ UNCHANGED <<scanVars, fuzzyVars, typeVars, treeVars, getVars, parVars, seqVars, lineVars>>

\* a process exits while the call runs
Exit(p) ==
    /\ kt.pc \in {"collect", "kill"}
    /\ Running(procs, p)
    /\ procs' = Without(procs, p)
    /\ UNCHANGED <<kt, scanVars, fuzzyVars, typeVars, treeVars, getVars, parVars, seqVars, lineVars>>

\* a process forks while the call runs: the child gets a pid never used
Fork(q) ==
    /\ kt.pc \in {"collect", "kill"}
    /\ Running(procs, q)
    /\ \E p \in Pids :
        /\ procs[p].state = "unused"
        /\ \A o \in Pids : procs[o].state = "unused" => p <= o
        /\ procs' = [procs EXCEPT ![p] = RunningUnder(q)]
    /\ UNCHANGED <<kt, scanVars, fuzzyVars, typeVars, treeVars, getVars, parVars, seqVars, lineVars>>

NextPs ==
    \/ \E pid \in Pids, signal \in Signals : KillTree(pid, signal)
    \/ CollectDescendants
    \/ KillNext
    \/ \E p \in Pids : Exit(p)
    \/ \E q \in Pids : Fork(q)

SpecPs == InitPs /\ [][NextPs]_vars

\* ------------------------------------------------ claims on kill_tree
\* the place of a pid in the sequence of signals sent so far (0: not yet)
SignalPlace(x) ==
    IF \E j \in 1..Len(kt.signalled) : kt.signalled[j].pid = x
    THEN CHOOSE j \in 1..Len(kt.signalled) : kt.signalled[j].pid = x
    ELSE 0

RECURSIVE CollectedAncestors(_)
\* the pids above the n-th collected pid, as collect_descendants found them
CollectedAncestors(n) ==
    LET above == kt.under[n]
    IN IF above = kt.pid THEN {kt.pid}
       ELSE {above} \cup CollectedAncestors(
                CHOOSE m \in 1..Len(kt.descendants) : kt.descendants[m] = above)

\* C19: when kill_tree returns, every collected descendant was signalled
\* before each of its ancestors, the root was signalled last, every
\* collected pid was signalled exactly once, and the returned count is the
\* number of successful kills, at most 1 + the number of descendants.
C19_KillTreeBottomUp ==
    kt.pc = "done" =>
        /\ \A n \in 1..Len(kt.descendants) :
            /\ Cardinality({j \in 1..Len(kt.signalled) :
                    kt.signalled[j].pid = kt.descendants[n]}) = 1
            /\ \A a \in CollectedAncestors(n) :
                    SignalPlace(kt.descendants[n]) < SignalPlace(a)
        /\ Len(kt.signalled) = Len(kt.descendants) + 1
        /\ kt.signalled[Len(kt.signalled)].pid = kt.pid
        /\ kt.killed = Cardinality({j \in 1..Len(kt.signalled) :
                                        kt.signalled[j].ok})
        /\ kt.killed <= 1 + Len(kt.descendants)

\* a returned call on a tree two levels deep where one kill failed
C19_Witness ==
    /\ kt.pc = "done"
    /\ Len(kt.descendants) >= 2
    /\ \E n \in 1..Len(kt.descendants) : kt.under[n] # kt.pid
    /\ kt.killed >= 2
    /\ kt.killed < Len(kt.signalled)

\* ------------------------------------------------ concurrent cache readers
\* the roots of the cached walks: enough of them to fill the cache and go
\* over its capacity; every root holds the same tree
RootOf(n) == Root \o <<Slash[1], n>>

KeyOfRoot(n) ==
    [root |-> RootOf(n), include_hidden |-> FALSE, use_gitignore |-> TRUE]

RootKeys == { KeyOfRoot(n) : n \in 1..(MAX_GLOB_CACHE_ENTRIES + MaxThreads) }

\* a walk that ends normally with what it had found when the token tripped
WalkOfSwallowsError(files, key, cancel_at) ==
    [ CollectEntries(files, key.include_hidden, key.use_gitignore, cancel_at, 0)
        EXCEPT !.ok = TRUE ]

\* what a walk of the tree finds now, with the flags of the key
WalkOf(files, key, cancel_at) ==
    CollectEntries(files, key.include_hidden, key.use_gitignore, cancel_at, 0)

\* the cache after earlier calls at time 0 stored the first `stored` roots,
\* the n-th with cacheTtlMs (n + 2) \div 2: 1, 2, 2, 3, 3, ...
WarmCache(stored, files) ==
    [ k \in RootKeys |->
        IF \E n \in 1..stored : k = KeyOfRoot(n)
        THEN [ expires_at |-> (k.root[Len(k.root)] + 2) \div 2,
               entries |-> WalkOf(files, k, None).entries ]
        ELSE NoEntry ]

\* the keys the threads ask for: the first root and the roots past capacity
AskedKeys ==
    { KeyOfRoot(n) :
        n \in {1} \cup (MAX_GLOB_CACHE_ENTRIES + 1)..(MAX_GLOB_CACHE_ENTRIES + MaxThreads) }

InitCache ==
    /\ fs = {NameA}
    /\ \E stored \in {0, MAX_GLOB_CACHE_ENTRIES - 1, MAX_GLOB_CACHE_ENTRIES} :
            cache = WarmCache(stored, fs)
    /\ written = cache
    /\ now = 0
    /\ call = NoCall
    /\ ncalls = 0
    /\ gets = [t \in Threads |-> NoGet]
    /\ ScanIdle /\ FuzzyIdle /\ TypeIdle /\ PsIdle /\ ParIdle /\ SeqIdle /\ LineIdle

\* some thread holds the guard GLOB_CACHE.get returned for the key: the read
\* lock of the key's shard (keys are taken to lie in different shards)
GuardHeld(key) ==
    \E t \in Threads : gets[t].pc = "blocked" /\ gets[t].key = key

\* the call returns
GetReturns(g, outcome, entries, served) ==
    [g EXCEPT !.pc = "done", !.outcome = outcome, !.entries = entries,
              !.served = served]

\* a call that looks the key up whatever its cache_ttl_ms
GetCallReadsCache(t, key, cache_ttl_ms, cancel_at) ==
    /\ gets[t].pc \in {"idle", "done"}
    /\ ncalls < MaxCalls
    /\ ncalls' = ncalls + 1
    /\ gets' = [gets EXCEPT ![t] =
                  [NoGet EXCEPT !.pc = "get",
                                !.key = key, !.cache_ttl_ms = cache_ttl_ms,
                                !.cancel_at = cancel_at, !.start = now]]
    /\ UNCHANGED <<written, fs, cache, now, call, scanVars, fuzzyVars,
                   typeVars, psVars, parVars, seqVars, lineVars>>

\* get_entries_with_cache is entered by a thread that is in no other call:
\* key is built, now = Instant::now()
GetCall(t, key, cache_ttl_ms, cancel_at) ==
    /\ gets[t].pc \in {"idle", "done"}
    /\ ncalls < MaxCalls
    /\ ncalls' = ncalls + 1
    /\ gets' = [gets EXCEPT ![t] =
                  [NoGet EXCEPT !.pc = IF cache_ttl_ms = 0 THEN "walk" ELSE "get",
                                !.key = key, !.cache_ttl_ms = cache_ttl_ms,
                                !.cancel_at = cancel_at, !.start = now]]
    /\ UNCHANGED <<written, fs, cache, now, call, scanVars, fuzzyVars,
                   typeVars, psVars, parVars, seqVars, lineVars>>

\* an entry is served up to and at its expires_at
UnexpiredAtExpiry(entry, start) == entry.expires_at >= start

\* entry.expires_at > now
Unexpired(entry, start) == entry.expires_at > start

\* GLOB_CACHE.get(&key): nothing stored, a live entry (cloned and returned),
\* or an expired one, where GLOB_CACHE.remove(&key) then waits for the write
\* lock of the shard whose read lock `entry` still holds
GetLookup(t) ==
    /\ gets[t].pc = "get"
    /\ LET g == gets[t]
           entry == cache[g.key]
       IN gets' = [gets EXCEPT ![t] =
                     IF entry = NoEntry THEN [g EXCEPT !.pc = "walk"]
                     ELSE IF Unexpired(entry, g.start)
                     THEN GetReturns(g, "ok", entry.entries, entry)
                     ELSE [g EXCEPT !.pc = "blocked"]]
    /\ UNCHANGED <<written, treeVars, scanVars, fuzzyVars, typeVars, psVars, parVars, seqVars, lineVars>>

\* collect_entries(root, include_hidden, use_gitignore, ct)?
GetWalk(t) ==
    /\ gets[t].pc = "walk"
    /\ LET g == gets[t]
           r == WalkOf(fs, g.key, g.cancel_at)
       IN gets' = [gets EXCEPT ![t] =
                     IF ~r.ok THEN GetReturns(g, "cancelled", <<>>, NoEntry)
                     ELSE IF g.cache_ttl_ms = 0
                     THEN GetReturns(g, "ok", r.entries, NoEntry)
                     ELSE [g EXCEPT !.pc = "insert", !.entries = r.entries]]
    /\ UNCHANGED <<written, treeVars, scanVars, fuzzyVars, typeVars, psVars, parVars, seqVars, lineVars>>

\* an insert that leaves an entry already stored under the key
InsertedIfAbsent(c, key, entry) ==
    IF c[key] = NoEntry THEN [c EXCEPT ![key] = entry] ELSE c

\* GLOB_CACHE.insert(key, GlobCacheEntry { .. })
Inserted(c, key, entry) == [c EXCEPT ![key] = entry]

\* the insert of the walk, once no reader holds the shard
GetInsert(t) ==
    /\ gets[t].pc = "insert"
    /\ ~GuardHeld(gets[t].key)
    /\ LET g == gets[t]
           entry == [expires_at |-> g.start + g.cache_ttl_ms,
                     entries |-> g.entries]
       IN /\ cache' = Inserted(cache, g.key, entry)
          /\ written' = [written EXCEPT ![g.key] = entry]
          /\ gets' = [gets EXCEPT ![t].pc = "len"]
    /\ UNCHANGED <<fs, now, call, ncalls, scanVars, fuzzyVars, typeVars, psVars, parVars, seqVars, lineVars>>

\* GLOB_CACHE.len() > MAX_GLOB_CACHE_ENTRIES
GetLen(t) ==
    /\ gets[t].pc = "len"
    /\ gets' = [gets EXCEPT ![t] =
                  IF CacheLen(cache) > MAX_GLOB_CACHE_ENTRIES
                  THEN [@ EXCEPT !.pc = "oldest"]
                  ELSE GetReturns(@, "ok", @.entries, NoEntry)]
    /\ UNCHANGED <<written, treeVars, scanVars, fuzzyVars, typeVars, psVars, parVars, seqVars, lineVars>>

\* the keys whose entries have the greatest expires_at
NewestKeys(c) ==
    { k \in DOMAIN c :
        /\ c[k] # NoEntry
        /\ \A k2 \in DOMAIN c :
             c[k2] # NoEntry => c[k].expires_at >= c[k2].expires_at }

\* the keys whose entries have the least expires_at
OldestKeys(c) ==
    { k \in DOMAIN c :
        /\ c[k] # NoEntry
        /\ \A k2 \in DOMAIN c :
             c[k2] # NoEntry => c[k].expires_at <= c[k2].expires_at }

\* GLOB_CACHE.iter().min_by_key(|entry| entry.value().expires_at): among
\* equals the map's iteration order decides
GetOldest(t) ==
    /\ gets[t].pc = "oldest"
    /\ \E k \in OldestKeys(cache) :
         gets' = [gets EXCEPT ![t].pc = "evict", ![t].oldest_key = k]
    /\ UNCHANGED <<written, treeVars, scanVars, fuzzyVars, typeVars, psVars, parVars, seqVars, lineVars>>

\* GLOB_CACHE.remove(&oldest_key), once no reader holds the shard; Ok(entries)
GetEvict(t) ==
    /\ gets[t].pc = "evict"
    /\ ~GuardHeld(gets[t].oldest_key)
    /\ cache' = [cache EXCEPT ![gets[t].oldest_key] = NoEntry]
    /\ gets' = [gets EXCEPT ![t] = GetReturns(@, "ok", @.entries, NoEntry)]
    /\ UNCHANGED <<written, fs, now, call, ncalls, scanVars, fuzzyVars,
                   typeVars, psVars, parVars, seqVars, lineVars>>

\* a step of the thread inside get_entries_with_cache
GetStep(t) ==
    \/ GetLookup(t)
    \/ GetWalk(t)
    \/ GetInsert(t)
    \/ GetLen(t)
    \/ GetOldest(t)
    \/ GetEvict(t)

NextCache ==
    \/ \E t \in Threads, key \in AskedKeys, ttl \in Ttls, cancel_at \in {None, 0} :
            GetCall(t, key, ttl, cancel_at)
    \/ \E t \in Threads : GetStep(t)
    \/ Tick
    \/ Mutate

SpecCache == InitCache /\ [][NextCache]_vars

\* no call is in progress
NoGetRunning == \A t \in Threads : gets[t].pc \in {"idle", "done"}

\* a call that begins when none is running
GetCallAlone(t, key, cache_ttl_ms, cancel_at) ==
    NoGetRunning /\ GetCall(t, key, cache_ttl_ms, cancel_at)

\* the calls made one after the other
NextCacheSeq ==
    \/ \E t \in Threads, key \in AskedKeys, ttl \in Ttls, cancel_at \in {None, 0} :
            GetCallAlone(t, key, ttl, cancel_at)
    \/ \E t \in Threads : GetStep(t)
    \/ Tick
    \/ Mutate

SpecCacheSeq == InitCache /\ [][NextCacheSeq]_vars

\* every thread gets to run: the calls run on the blocking thread pool
SpecCacheLive ==
    InitCache /\ [][NextCache]_vars /\ \A t \in Threads : WF_vars(GetStep(t))

\* ------------------------------------------------ claims on the shared cache
\* C21: every get with ttlMs > 0 whose token is never tripped eventually
\* returns: on a miss, on a live hit, and on an expired entry.
C21_GetEventuallyReturns ==
    \A t \in Threads :
        (gets[t].pc = "get" /\ gets[t].cancel_at = None) ~> (gets[t].pc = "done")

\* C27: with calls made one after the other, the cache holds at most 16
\* entries whenever no call is running, and a step that shrinks a cache of
\* more than 16 entries removes exactly one entry, one whose expiresAt is
\* the least of all stored entries.
C27_EvictsOldestOverCapacity ==
    /\ [](NoGetRunning => CacheLen(cache) <= MAX_GLOB_CACHE_ENTRIES)
    /\ [][ (CacheLen(cache) > MAX_GLOB_CACHE_ENTRIES /\ cache' # cache)
           => \E k \in DOMAIN cache :
                /\ cache[k] # NoEntry
                /\ \A k2 \in DOMAIN cache :
                     cache[k2] # NoEntry
                        => cache[k].expires_at <= cache[k2].expires_at
                /\ cache' = [cache EXCEPT ![k] = NoEntry]
       ]_vars

\* a call stored a 17th entry, removed the entry of the first root, the
\* oldest, and returned
C27_Witness ==
    \E t \in Threads :
        /\ gets[t].pc = "done"
        /\ gets[t].oldest_key = KeyOfRoot(1)
        /\ cache[KeyOfRoot(1)] = NoEntry
        /\ cache[gets[t].key] # NoEntry
        /\ CacheLen(cache) = MAX_GLOB_CACHE_ENTRIES

\* the keys of the calls made so far are all different
DistinctKeysAsked ==
    \A t, u \in Threads :
        (t # u /\ gets[t].pc # "idle" /\ gets[u].pc # "idle")
            => gets[t].key # gets[u].key

\* C28: whatever the interleaving of concurrent gets with ttlMs > 0 on
\* distinct keys, the cache holds at most 16 entries once all have returned.
C28_BoundedAfterConcurrentGets ==
    ( /\ NoGetRunning
      /\ DistinctKeysAsked
      /\ \A t \in Threads : gets[t].pc = "done" => gets[t].cache_ttl_ms > 0 )
    => CacheLen(cache) <= MAX_GLOB_CACHE_ENTRIES

\* the lists a finished walk of the root can give
CompleteWalks(key) ==
    { WalkOf(files, key, None).entries : files \in {{NameA}, {NameA, NameB}} }

\* C29: a call that was served from the cache got an entry whose expiresAt
\* is later than the call's start, and the expiresAt of a stored entry is
\* the start of the storing call plus its ttlMs: no other step changes it.
C29_ServedOnlyBeforeExpiry ==
    /\ [](\A t \in Threads :
            (gets[t].pc = "done" /\ gets[t].served # NoEntry)
                => /\ gets[t].served.expires_at > gets[t].start
                   /\ gets[t].entries = gets[t].served.entries)
    /\ [][ \A k \in DOMAIN cache :
             (cache'[k] # cache[k] /\ cache'[k] # NoEntry)
                => \E t \in Threads :
                     /\ gets[t].pc = "insert"
                     /\ gets[t].key = k
                     /\ cache'[k].expires_at = gets[t].start + gets[t].cache_ttl_ms
       ]_vars

\* a call that began after time 0 was served an entry another call stored
C29_Witness ==
    \E t \in Threads :
        /\ gets[t].pc = "done"
        /\ gets[t].served # NoEntry
        /\ gets[t].start >= 1
        /\ gets[t].served.expires_at = 2

\* all calls made so far were on one key
SameKeyAsked(key) ==
    /\ \A t \in Threads : gets[t].pc # "idle" => gets[t].key = key
    /\ \E t \in Threads : gets[t].pc # "idle"

\* C30: with concurrent gets on one key, a call that returns successfully
\* returns the list of a finished walk, its own or a stored one that had not
\* expired, and once all have returned the entry stored for the key, if
\* any, is the one of the last insert.
C30_SameKeyLastInsertWins ==
    \A key \in AskedKeys :
        SameKeyAsked(key) =>
            /\ \A t \in Threads :
                (gets[t].pc = "done" /\ gets[t].outcome = "ok")
                    => /\ gets[t].entries \in CompleteWalks(key)
                       /\ gets[t].served # NoEntry
                            => /\ gets[t].entries = gets[t].served.entries
                               /\ gets[t].served.expires_at > gets[t].start
            /\ (NoGetRunning /\ cache[key] # NoEntry) => cache[key] = written[key]

\* two calls on one key both walked and both stored, the second over the
\* first, and both have returned
C30_Witness ==
    \E key \in AskedKeys :
        /\ SameKeyAsked(key)
        /\ \A t \in Threads :
            /\ gets[t].pc = "done"
            /\ gets[t].outcome = "ok"
            /\ gets[t].cache_ttl_ms > 0
            /\ gets[t].served = NoEntry
        /\ \E t, u \in Threads :
            /\ gets[t].start # gets[u].start
            /\ gets[t].entries # gets[u].entries
        /\ cache[key] # NoEntry

\* C31: a call whose token is tripped when it walks fails with the
\* cancellation error and returns no entries; it never reaches the insert,
\* so the entry stored for its key is the one it found, and every stored
\* list is the list of a finished walk.
C31_CancelledWalkStoresNothing ==
    /\ [](\A t \in Threads :
            gets[t].cancel_at # None
                => /\ gets[t].pc \notin {"insert", "len", "oldest", "evict"}
                   /\ (gets[t].pc = "done" /\ gets[t].served = NoEntry)
                        => (gets[t].outcome = "cancelled" /\ gets[t].entries = <<>>))
    /\ [](\A k \in AskedKeys :
            cache[k] # NoEntry => cache[k].entries \in CompleteWalks(k))
    /\ [][ \A t \in Threads :
             (gets[t].pc = "walk" /\ gets[t].cancel_at # None /\ gets'[t] # gets[t])
                => /\ cache' = cache
                   /\ gets'[t].pc = "done"
       ]_vars

\* a call with a TTL found nothing stored for its key, walked under a
\* tripped token and failed; nothing is stored for the key
C31_Witness ==
    \E t \in Threads :
        /\ gets[t].pc = "done"
        /\ gets[t].outcome = "cancelled"
        /\ gets[t].cache_ttl_ms > 0
        /\ cache[gets[t].key] = NoEntry
        /\ CacheLen(cache) = MAX_GLOB_CACHE_ENTRIES

\* C32: a call with ttlMs = 0 is never served a stored entry: it returns
\* the list of a walk of the tree as it is when it walks, and none of its
\* steps changes the cache, whatever is stored for its key.
C32_ZeroTtlBypassesCache ==
    /\ [](\A t \in Threads :
            (gets[t].pc # "idle" /\ gets[t].cache_ttl_ms = 0)
                => /\ gets[t].pc \in {"walk", "done"}
                   /\ gets[t].served = NoEntry)
    /\ [][ \A t \in Threads :
             (gets[t].pc # "idle" /\ gets[t].cache_ttl_ms = 0 /\ gets'[t] # gets[t]
                /\ gets[t].pc # "done")
                => /\ cache' = cache
                   /\ gets'[t].pc = "done"
                   /\ gets[t].cancel_at = None
                        => /\ gets'[t].outcome = "ok"
                           /\ gets'[t].entries
                                = CollectEntries(fs, gets[t].key.include_hidden,
                                                 gets[t].key.use_gitignore,
                                                 None, 0).entries
       ]_vars

\* a call with ttlMs = 0 returned a fresh list that differs from the live
\* entry stored for its key, and the entry is still there
C32_Witness ==
    \E t \in Threads :
        /\ gets[t].pc = "done" /\ gets[t].outcome = "ok"
        /\ gets[t].cache_ttl_ms = 0
        /\ cache[gets[t].key] # NoEntry
        /\ cache[gets[t].key].expires_at > gets[t].start
        /\ cache[gets[t].key].entries # gets[t].entries

\* ------------------------------------------------ the parallel strategy
\* the searches that take the parallel strategy: no limit, no offset
ParallelOptions ==
    { o \in SearchOptions : o.max_count = None /\ o.offset = 0 }

\* the files a tree may hold: with and without matches, one that does not
\* open, one that does not read, one in a directory and one next to it
ParallelFiles == {NameB, NameD, NameP, NameQ, PathC, NameS}

InitPar ==
    /\ fs \in SUBSET ParallelFiles
    /\ cache = EmptyCache
    /\ now = 0
    /\ call = NoCall
    /\ ncalls = 0
    /\ par = NoSearch
    /\ ScanIdle /\ FuzzyIdle /\ TypeIdle /\ PsIdle /\ GetsIdle /\ SeqIdle /\ LineIdle

\* grep_sync on a directory, up to entries.par_iter(): the files are
\* collected, the heartbeat passes, no file is searched yet
ParStart ==
    /\ par.pc = "idle"
    /\ \E o \in ParallelOptions :
         LET entries == CollectFiles(fs, o.glob, o.hidden # "false",
                                     o.type_filter)
         IN /\ Len(entries) > 0
            /\ par' = [ pc |-> "search", options |-> o, entries |-> entries,
                        slots |-> [i \in 1..Len(entries) |-> [state |-> "pending"]],
                        finished |-> <<>> ]
    /\ UNCHANGED <<treeVars, scanVars, fuzzyVars, typeVars, psVars, getVars, seqVars, lineVars>>

\* the closure of filter_map on one entry: None when the file does not open
\* or does not read
SearchedEntry(entry, p) ==
    IF OpenFails(entry) \/ ReadFails(entry) THEN [state |-> "dropped"]
    ELSE [ state |-> "kept", relative_path |-> entry,
           search |-> RunSearchReader(FileContent(entry),
                          [p EXCEPT !.max_count = None, !.offset = 0]) ]

\* a worker thread searches an entry no worker has taken: any of them
ParSearchFile(i) ==
    /\ par.pc = "search"
    /\ i \in 1..Len(par.entries)
    /\ par.slots[i].state = "pending"
    /\ par' = [par EXCEPT
                 !.slots[i] = SearchedEntry(par.entries[i], GrepParams(par.options)),
                 !.finished = Append(@, i)]
    /\ UNCHANGED <<treeVars, scanVars, fuzzyVars, typeVars, psVars, getVars, seqVars, lineVars>>

\* collect(): the results the closure kept, in the order of the entries
ParCollected(slots) ==
    LET Kept(x) == x.state = "kept"
        kept == SelectSeq(slots, Kept)
    IN [i \in 1..Len(kept) |->
          [relative_path |-> kept[i].relative_path, search |-> kept[i].search]]

\* a merge that begins as soon as one worker is done, from the results there
\* are by then
ParMergeEarly ==
    /\ par.pc = "search"
    /\ \E i \in 1..Len(par.entries) : par.slots[i].state # "pending"
    /\ LET k == [options |-> par.options, cancel_at |-> None]
           r == GrepParallel(Collected(cache, par.entries), par.entries,
                             GrepParams(par.options),
                             SortByPath(ParCollected(par.slots)))
       IN call' = Called("grep", k, r, cache)
    /\ par' = [par EXCEPT !.pc = "done"]
    /\ ncalls' = ncalls + 1
    /\ UNCHANGED <<fs, cache, now, scanVars, fuzzyVars, typeVars, psVars, getVars, seqVars, lineVars>>

\* every entry is searched: run_parallel_search sorts and returns, grep_sync
\* merges the results in that order and returns
ParMerge ==
    /\ par.pc = "search"
    /\ \A i \in 1..Len(par.entries) : par.slots[i].state # "pending"
    /\ LET k == [options |-> par.options, cancel_at |-> None]
           r == GrepParallel(Collected(cache, par.entries), par.entries,
                             GrepParams(par.options),
                             SortByPath(ParCollected(par.slots)))
       IN call' = Called("grep", k, r, cache)
    /\ par' = [par EXCEPT !.pc = "done"]
    /\ ncalls' = ncalls + 1
    /\ UNCHANGED <<fs, cache, now, scanVars, fuzzyVars, typeVars, psVars, getVars, seqVars, lineVars>>

NextPar ==
    \/ ParStart
    \/ \E i \in 1..Cardinality(ParallelFiles) : ParSearchFile(i)
    \/ ParMerge

SpecPar == InitPar /\ [][NextPar]_vars

\* ------------------------------------------------ claims on the strategies
RECURSIVE InPathOrder(_)
\* the paths of a set, ascending as strings
InPathOrder(paths) ==
    IF paths = {} THEN <<>>
    ELSE LET first == CHOOSE x \in paths :
                        \A y \in paths \ {x} : TextLess(x, y)
         IN <<first>> \o InPathOrder(paths \ {first})

\* the collected files that open and read, ascending as strings
ReadableInPathOrder ==
    InPathOrder({ par.entries[i] : i \in 1..Len(par.entries) }
                \ { f \in ParallelFiles : OpenFails(f) \/ ReadFails(f) })

\* the readable files with a raw match, ascending as strings
MatchingInPathOrder ==
    LET Matching(f) == Len(RawMatches(FileContent(f))) > 0
    IN SelectSeq(ReadableInPathOrder, Matching)

\* C25: whatever the order in which the workers searched the files, the
\* parallel strategy returns the records file by file in ascending order of
\* relative path, in line order within a file, and totalMatches,
\* filesWithMatches and filesSearched are those of the readable files.
C25_ParallelResultDeterministic ==
    par.pc = "done" =>
        /\ call.result.outcome = "ok"
        /\ IF par.options.mode = "content"
           THEN ReturnedPairs = RawMatchesOfFiles(ReadableInPathOrder, 1)
           ELSE [i \in 1..Len(call.result.matches) |->
                    <<call.result.matches[i].path,
                      call.result.matches[i].match_count>>]
                = [i \in 1..Len(MatchingInPathOrder) |->
                    <<MatchingInPathOrder[i],
                      Len(RawMatches(FileContent(MatchingInPathOrder[i])))>>]
        /\ call.result.total_matches
                = Len(RawMatchesOfFiles(ReadableInPathOrder, 1))
        /\ call.result.files_with_matches = Len(MatchingInPathOrder)
        /\ call.result.files_searched = Len(ReadableInPathOrder)

\* the workers finished the files in another order than collected, and the
\* records of sub.ts precede those of the file below sub/
C25_Witness ==
    /\ par.pc = "done"
    /\ \E i \in 1..(Len(par.finished) - 1) : par.finished[i] > par.finished[i + 1]
    /\ par.options.mode = "content"
    /\ Len(call.result.matches) >= 3
    /\ call.result.matches[1].path = NameS
    /\ call.result.matches[Len(call.result.matches)].path = PathC

\* the result of the parallel strategy is the one run_sequential_search
\* gives on the collected files
SameAsSequential ==
    LET r == RunSequentialSearch(par.entries, GrepParams(par.options))
    IN /\ call.result.matches = r.matches
       /\ call.result.total_matches = r.total_matches
       /\ call.result.files_with_matches = r.files_with_matches
       /\ call.result.files_searched = r.files_searched

\* C26: without maxCount and with offset 0, the parallel strategy returns
\* the records, in the order, and the totalMatches, filesWithMatches and
\* filesSearched that the sequential strategy returns on the same list of
\* collected files.
C26_ParallelAsSequential ==
    par.pc = "done" => SameAsSequential

\* the same, when every collected file reads and no file name continues the
\* name of a directory next to it
ParallelAsSequentialPlainTree ==
    (par.pc = "done" /\ NameQ \notin fs /\ NameS \notin fs) => SameAsSequential

\* C34: in the parallel strategy a callback fires only in a step taken when
\* every file has been searched; the callbacks are the returned records, in
\* ascending order of path.
C34_CallbacksAfterAllScans ==
    /\ [](par.pc = "done"
            => /\ call.result.notified = call.result.matches
               /\ \A i, j \in 1..Len(call.result.notified) :
                    i < j => ~TextLess(call.result.notified[j].path,
                                       call.result.notified[i].path))
    /\ [][ call'.result.notified # call.result.notified
            => /\ Len(par.finished) = Len(par.entries)
               /\ \A i \in 1..Len(par.entries) : par.slots[i].state # "pending"
       ]_vars

\* the callbacks of two files fired after the workers had finished the files
\* in another order than the collected one
C34_Witness ==
    /\ par.pc = "done"
    /\ Len(par.finished) >= 3
    /\ par.finished[1] > par.finished[2]
    /\ \E i, j \in 1..Len(call.result.notified) :
         call.result.notified[i].path # call.result.notified[j].path

\* ------------------------------------------------ the sequential strategy
\* the searches that take the sequential strategy: a limit or an offset
SequentialOptions ==
    { o \in SearchOptions : o.max_count # None \/ o.offset > 0 }

InitSeq ==
    /\ fs \in SUBSET ParallelFiles
    /\ cache = EmptyCache
    /\ now = 0
    /\ call = NoCall
    /\ ncalls = 0
    /\ seqRun = NoSequential
    /\ ScanIdle /\ FuzzyIdle /\ TypeIdle /\ PsIdle /\ GetsIdle /\ ParIdle /\ LineIdle

\* grep_sync on a directory, up to the loop of run_sequential_search: the
\* files are collected, the heartbeat passes, the locals are initialised
SeqStart ==
    /\ seqRun.pc = "idle"
    /\ \E o \in SequentialOptions :
         LET entries == CollectFiles(fs, o.glob, o.hidden # "false",
                                     o.type_filter)
         IN /\ Len(entries) > 0
            /\ seqRun' = [ pc |-> "loop", options |-> o, entries |-> entries,
                           i |-> 1,
                           acc |-> [ matches |-> <<>>, total_matches |-> 0,
                                     collected |-> 0, files_with_matches |-> 0,
                                     files_searched |-> 0,
                                     limit_reached |-> FALSE, opened |-> <<>> ],
                           fired |-> 0, events |-> <<>> ]
    /\ UNCHANGED <<treeVars, scanVars, fuzzyVars, typeVars, psVars, getVars, parVars, lineVars>>

\* one pass of `for entry in entries`: the entry is skipped, or opened and
\* scanned, or the loop is left; an opened file goes on record
SeqFile ==
    /\ seqRun.pc = "loop"
    /\ LET r == seqRun
           a == SequentialLoop(<<r.entries[r.i]>>, 1, GrepParams(r.options), r.acc)
           left == r.acc.limit_reached
                   \/ (a.limit_reached /\ a.opened = r.acc.opened)
       IN seqRun' =
            IF left THEN [r EXCEPT !.pc = "callbacks", !.acc = a]
            ELSE [r EXCEPT
                    !.acc = a,
                    !.events = IF a.opened = r.acc.opened THEN @
                               ELSE Append(@, [kind |-> "open",
                                               path |-> r.entries[r.i]]),
                    !.i = @ + 1,
                    !.pc = IF r.i = Len(r.entries) THEN "callbacks" ELSE "loop"]
    /\ UNCHANGED <<treeVars, scanVars, fuzzyVars, typeVars, psVars, getVars, parVars, lineVars>>

\* `for grep_match in &matches { callback.call(..) }`: the next callback
SeqCallback ==
    /\ seqRun.pc = "callbacks"
    /\ seqRun.fired < Len(seqRun.acc.matches)
    /\ seqRun' = [seqRun EXCEPT
                    !.fired = @ + 1,
                    !.events = Append(@, [kind |-> "callback",
                                          path |-> seqRun.acc.matches[seqRun.fired + 1].path])]
    /\ UNCHANGED <<treeVars, scanVars, fuzzyVars, typeVars, psVars, getVars, parVars, lineVars>>

\* grep_sync returns the GrepResult
SeqReturn ==
    /\ seqRun.pc = "callbacks"
    /\ seqRun.fired = Len(seqRun.acc.matches)
    /\ LET k == [options |-> seqRun.options, cancel_at |-> None]
           r == GrepSequential(Collected(cache, seqRun.entries), seqRun.acc)
       IN call' = Called("grep", k, r, cache)
    /\ seqRun' = [seqRun EXCEPT !.pc = "done"]
    /\ ncalls' = ncalls + 1
    /\ UNCHANGED <<fs, cache, now, scanVars, fuzzyVars, typeVars, psVars, getVars, parVars, lineVars>>

NextSeq == SeqStart \/ SeqFile \/ SeqCallback \/ SeqReturn

SpecSeq == InitSeq /\ [][NextSeq]_vars

\* ------------------------------------------------ claims on the callbacks
\* the step by step search returns what grep_sync returns
SeqAsGrepSync ==
    seqRun.pc = "done"
    => call.result = [GrepSync(seqRun.options, cache, fs, None) EXCEPT !.cache = cache]

\* the file opened last before the k-th event
LastOpened(k) ==
    LET opens == { j \in 1..(k - 1) : seqRun.events[j].kind = "open" }
    IN seqRun.events[CHOOSE j \in opens : \A j2 \in opens : j2 <= j].path

\* C33: in the sequential strategy the callbacks for the records of a file
\* fire before the next file is opened: whenever a callback fires, the file
\* opened last is the file of its record; and the callbacks come in the
\* order of the collected files.
C33_CallbacksBeforeNextFile ==
    /\ \A k \in 1..Len(seqRun.events) :
         seqRun.events[k].kind = "callback"
            => LastOpened(k) = seqRun.events[k].path
    /\ seqRun.pc = "done" => call.result.notified = call.result.matches

\* what holds instead: no callback fires before the loop over the files has
\* ended; then one fires for each returned record, in the order of the records
CallbacksAfterLastFile ==
    /\ \A j, k \in 1..Len(seqRun.events) :
         (seqRun.events[j].kind = "callback" /\ seqRun.events[k].kind = "open")
            => k < j
    /\ seqRun.pc = "done"
         => /\ call.result.notified = call.result.matches
            /\ LET Fired(e) == e.kind = "callback"
                   fired == SelectSeq(seqRun.events, Fired)
               IN /\ Len(fired) = Len(call.result.matches)
                  /\ \A i \in 1..Len(fired) :
                       fired[i].path = call.result.matches[i].path

\* a sequential search opened a second file after one with matches
TwoFilesOpened ==
    /\ seqRun.pc = "done"
    /\ Len(call.result.opened) >= 2
    /\ Len(call.result.matches) >= 2

\* ------------------------------------------------ a line and maxColumns
LineChars == {"a", EAcute, " "}

\* the lines the searcher hands to the sink
RawLines == UNION { [1..n -> LineChars] : n \in 0..MaxLineLen }

InitLine ==
    /\ \E c \in {None} \cup (0..MaxColumns), b \in RawLines :
         trunc = [NoLine EXCEPT !.pc = "raw", !.max_columns = c, !.bytes = b]
    /\ ScanIdle /\ FuzzyIdle /\ TypeIdle /\ TreeIdle /\ PsIdle /\ GetsIdle
    /\ ParIdle /\ SeqIdle

\* matched(): the line of a match is trimmed, truncated and stored in the
\* record with its truncated flag
MatchedLine ==
    /\ trunc.pc = "raw"
    /\ LET r == TruncateLine(trunc.max_columns, BytesToTrimmedString(trunc.bytes))
       IN trunc' = [trunc EXCEPT !.pc = "done", !.kind = "match",
                                 !.line = r.line, !.truncated = r.truncated]
    /\ UNCHANGED <<scanVars, fuzzyVars, typeVars, treeVars, psVars, getVars, parVars, seqVars>>

\* context(): the line is trimmed and truncated; the flag is dropped
ContextLine ==
    /\ trunc.pc = "raw"
    /\ LET r == TruncateLine(trunc.max_columns, BytesToTrimmedString(trunc.bytes))
       IN trunc' = [trunc EXCEPT !.pc = "done", !.kind = "context",
                                 !.line = r.line]
    /\ UNCHANGED <<scanVars, fuzzyVars, typeVars, treeVars, psVars, getVars, parVars, seqVars>>

NextLine == MatchedLine \/ ContextLine

SpecLine == InitLine /\ [][NextLine]_vars

\* ------------------------------------------------ claims on maxColumns
\* the line as it reaches truncate_line
TrimmedLine == BytesToTrimmedString(trunc.bytes)

\* the returned line is the trimmed line, or a part of it that ends at a
\* character boundary at or below c - 3 followed by an ellipsis
CutBelow(c) ==
    IF ByteLen(TrimmedLine) <= c THEN trunc.line = TrimmedLine
    ELSE \E n \in 0..Len(TrimmedLine) :
            /\ ByteLen(SubSeq(TrimmedLine, 1, n)) <= c - 3
            /\ trunc.line = SubSeq(TrimmedLine, 1, n) \o <<".", ".", ".">>

\* C38: with maxColumns = c, for every c >= 0, a returned match or context
\* line is at most c long; a longer line is cut at a character boundary at
\* or below c - 3 and gets an ellipsis; the truncated flag of a record is
\* set exactly when its line was longer than c.
C38_LinesWithinMaxColumns ==
    (trunc.pc = "done" /\ trunc.max_columns # None)
    => /\ ByteLen(trunc.line) <= trunc.max_columns
       /\ CutBelow(trunc.max_columns)
       /\ trunc.kind = "match"
            => (trunc.truncated <=> ByteLen(TrimmedLine) > trunc.max_columns)

\* the same for maxColumns >= 3; for maxColumns < 3 a longer line becomes
\* the ellipsis alone; without maxColumns the line is returned as trimmed
LinesWithinMaxColumnsFromThree ==
    trunc.pc = "done"
    => /\ trunc.max_columns = None
            => (trunc.line = TrimmedLine /\ ~trunc.truncated)
       /\ (trunc.max_columns # None /\ trunc.max_columns >= 3)
            => /\ ByteLen(trunc.line) <= trunc.max_columns
               /\ CutBelow(trunc.max_columns)
       /\ (trunc.max_columns # None /\ trunc.max_columns < 3
                /\ ByteLen(TrimmedLine) > trunc.max_columns)
            => trunc.line = <<".", ".", ".">>
       /\ (trunc.max_columns # None /\ trunc.kind = "match")
            => (trunc.truncated <=> ByteLen(TrimmedLine) > trunc.max_columns)

\* a line was cut in front of a two-byte character that straddles c - 3
CutAtCharBoundary ==
    /\ trunc.pc = "done" /\ trunc.max_columns = 4
    /\ trunc.line = <<".", ".", ".">>
    /\ TrimmedLine[1] = EAcute

====
